---- MODULE Spec2Model ----
(***************************************************************************)
(* Verification model of ts_tcs_wep: the WEPController (catalog session,  *)
(* star-map analysis, sensor-name parsing, ISR dispatch, donut-map        *)
(* assembly) and the LocalDatabase bright-star table.                     *)
(*                                                                         *)
(* Strings that the code parses are sequences of one-character strings.   *)
(* Python None is the record None; every image-like value is a record.    *)
(***************************************************************************)
EXTENDS Integers, Sequences, FiniteSets, TLC

VARIABLES
    \* ---- WEPController.getDonutMap ----
    neighborStarMap,   \* argument: sensor name -> NeighboringStar entry
    wfsImgMap,         \* argument: [keys: sensor names in dict order, img: name -> DefocalImage]
    doDeblending,      \* argument
    donutMap,          \* local: sensor name -> list of DonutImage
    pc,                \* position of getDonutMap: [at, s, ii, jj]
    sourProcSensor,    \* sensor name held by the shared source processor
    deblendCalls,      \* calls made to sourProc.doDeblending
    extractions,       \* calls made to sourProc.getSingleTargetImage
    taskPc,            \* positions of the per-detector tasks of a concurrent getDonutMap
    \* ---- WEPController.getTargetStarByFile ----
    sourSelc,          \* the source selector: [name]
    dbCalls,           \* catalog-session calls made so far, in order
    tsPc,              \* position of getTargetStarByFile
    tsMaps,            \* [nbr, star, wfs]: the three maps held by the call
    tsQueried,         \* the three maps as getTargetStar returned them
    \* ---- WEPController.doISR / getPostISRDefocalImgMap ----
    ctlPc,             \* "idle", "returned" or "raised" for the last controller call
    ctlArg,            \* the sensor-name argument(s) of the last controller call
    isrCalls,          \* calls made to isrWrapper.doISR
    butlerGets,        \* dataIds passed to isrWrapper.butler.get
    imgMapOut,         \* map returned by getPostISRDefocalImgMap
    \* ---- LocalDatabase ----
    dbRows,            \* rows of the table as seen by the connection (pending)
    dbCommitted,       \* rows of the table as committed
    dbPc,              \* outcome of the last LocalDatabase call
    dbArg,             \* arguments of the last LocalDatabase call
    \* ---- runWEP ----
    wepPc,             \* position of runWEP
    wepAlgo,           \* the Algorithm object: configuration and solver state
    wepResult,         \* value returned by runWEP
    cfgFile,           \* lines of the configuration file read by __readConfigFile
    cfgOut,            \* lines written to fout by __readConfigFile
    \* ---- MockMiddleware ----
    eventStore,        \* MockMiddleware.eventStore (class attribute)
    telemetryStore,    \* MockMiddleware.telemetryStore (class attribute)
    mwLog,             \* issueEvent/issueTelemetry calls made so far, in order
    mwLast,            \* the last MockMiddleware call and what it returned
    \* ---- FitsFormat ----
    fsFiles,           \* the file system: path -> content of the file
    fsDirs,            \* the directories that exist
    fitsDir,           \* FitsFormat.fitsDir of the object
    fitsArg,           \* arguments of the last writeNewFits call
    fitsRet            \* value returned by the last writeNewFits call

vars == <<neighborStarMap, wfsImgMap, doDeblending, donutMap, pc, sourProcSensor,
          deblendCalls, sourSelc, dbCalls, tsPc, tsMaps, tsQueried, ctlPc, ctlArg, isrCalls,
          butlerGets, imgMapOut, dbRows, dbCommitted, dbPc, dbArg, extractions, taskPc,
          wepPc, wepAlgo, wepResult, cfgFile, cfgOut, eventStore, telemetryStore, mwLog,
          mwLast, fsFiles, fsDirs, fitsDir, fitsArg, fitsRet>>

donutVars == <<neighborStarMap, wfsImgMap, doDeblending, donutMap, pc, sourProcSensor,
               deblendCalls, extractions, taskPc>>
targetVars == <<sourSelc, dbCalls, tsPc, tsMaps, tsQueried>>
ctlVars == <<ctlPc, ctlArg, isrCalls, butlerGets, imgMapOut>>
dbVars == <<dbRows, dbCommitted, dbPc, dbArg>>
wepVars == <<wepPc, wepAlgo, wepResult, cfgFile, cfgOut>>
mwVars == <<eventStore, telemetryStore, mwLog, mwLast>>
fitsVars == <<fsFiles, fsDirs, fitsDir, fitsArg, fitsRet>>
auxVars == <<wepVars, mwVars, fitsVars>>

----------------------------------------------------------------------------
\* Bounds of the model.

\* largest number of neighbors listed for one bright star
MaxNbr == 2
\* largest centroid shift (pixels) the deblender may report
MaxShift == 1
\* largest number of bright candidates in one neighbor-star map
MaxCand == 2
\* largest number of characters following the "R:d,d S:d,d" part of a name
MaxSuffix == 2
\* largest number of sensor names passed to getPostISRDefocalImgMap
MaxSensors == 2
\* largest number of files in the wavefront-sensor directory
MaxFiles == 2
\* largest length of the lists passed to LocalDatabase.updateData
MaxUpd == 2

\* Python None
None == [kind |-> "None"]
\* a Python str, where the code may hold None instead
Str(chars) == [kind |-> "str", chars |-> chars]
\* a Python list, where the code may hold None instead
PyList(items) == [kind |-> "list", items |-> items]

\* Sequence helpers.
Range(s) == {s[i] : i \in 1..Len(s)}

IsDistinctSeq(s) == \A i, j \in 1..Len(s) : i # j => s[i] # s[j]

\* all duplicate-free sequences over S of length at most n (dict key orders)
DistinctSeqs(S, n) ==
    {s \in UNION {[1..k -> S] : k \in 0..n} : IsDistinctSeq(s)}

----------------------------------------------------------------------------
\* Detector names in canonical form, as character sequences.

\* "R:<r0>,<r1> S:<s0>,<s1>"
CanonicalName(r0, r1, s0, s1) ==
    <<"R", ":", r0, ",", r1, " ", "S", ":", s0, ",", s1>>

\* "R:2,2 S:1,1" and "R:2,2 S:1,0", the science sensors used as detectors
SensorA == CanonicalName("2", "2", "1", "1")
SensorB == CanonicalName("2", "2", "1", "0")

Detectors == {SensorA, SensorB}

\* Abbreviated detector name used for file names and for configuring the
\* source processor: "R:2,2 S:1,1" -> "R22_S11", "R:0,0 S:2,2,A" -> "R00_S22_C0"
\* (A is C0, B is C1).
AbbrevDetectorName(sensorName) ==
    LET base == <<"R", sensorName[3], sensorName[5], "_", "S", sensorName[9], sensorName[11]>>
    IN IF Len(sensorName) = 13
       THEN base \o <<"_", "C", IF sensorName[13] = "A" THEN "0" ELSE "1">>
       ELSE base

----------------------------------------------------------------------------
\* WEPController.getDonutMap and its collaborators.

\* donut radius configured for the source processor, in pixels
DonutRadiusInPixel == 63

\* bright-star ids that may be keys of a detector's candidate map
CandIds == {1, 2}

\* the first k stars after c, cyclically among the n stars of the detector: the
\* neighbor list of candidate c
NbrOf(c, k, n) == [j \in 1..k |-> ((c + j - 1) % n) + 1]

\* pixel position of a star on a detector: on SensorA the two candidates sit on
\* the same pixel, on SensorB every star has its own position
PixelOf(d, id) ==
    IF d = SensorA THEN <<100 + 5 * (id \div 3), 100>>
    ELSE <<100 * id, 100 + id>>

\* A NeighboringStar object of detector d with stars 1..n: SimobjID maps each
\* bright star (the dict keys, in order keys) to the list of its neighbor ids.
NbrEntry(d, keys, cnt, n) ==
    [keys |-> keys,
     SimobjID |-> [c \in Range(keys) |-> NbrOf(c, cnt[c], n)],
     RaDeclInPixel |-> [id \in 1..n |-> PixelOf(d, id)]]

\* A post-ISR detector image
CcdImage(d, focal) == [kind |-> "ccd", det |-> d, focal |-> focal]

\* DefocalImage(intraImg, extraImg)
DefocalImage(intraImg, extraImg) == [intraImg |-> intraImg, extraImg |-> extraImg]

\* DefocalImage.setImg: only the images given (not None) are replaced
SetImg(obj, intraImg, extraImg) ==
    [obj EXCEPT !.intraImg = IF intraImg # None THEN intraImg ELSE @,
                !.extraImg = IF extraImg # None THEN extraImg ELSE @]

\* DonutImage(starId, pixelX, pixelY): a DefocalImage with no image yet
DonutImage(starId, pixelX, pixelY) ==
    [starId |-> starId, pixelX |-> pixelX, pixelY |-> pixelY,
     intraImg |-> None, extraImg |-> None]

\* SourceProcessor.getSingleTargetImage: the cutout around candidate number ii
\* (1-based here) of the entry, the positions of the candidate and its
\* neighbors relative to the crop, their flux ratios and the crop offset.
GetSingleTargetImage(ccdImg, entry, ii) ==
    LET c == entry.keys[ii]
        stars == <<c>> \o entry.SimobjID[c]
        offX == entry.RaDeclInPixel[c][1] - DonutRadiusInPixel
        offY == entry.RaDeclInPixel[c][2] - DonutRadiusInPixel
    IN [img |-> [kind |-> "cutout", src |-> ccdImg, star |-> c],
        allStarPosX |-> [i \in 1..Len(stars) |-> entry.RaDeclInPixel[stars[i]][1] - offX],
        allStarPosY |-> [i \in 1..Len(stars) |-> entry.RaDeclInPixel[stars[i]][2] - offY],
        magRatio |-> [i \in 1..Len(stars) |-> IF i = 1 THEN 100 ELSE 50],
        offsetX |-> offX, offsetY |-> offY]

\* SourceProcessor.doDeblending: the isolated cutout and the refined center,
\* which may differ from the nominal one by a shift that depends on the image.
DoDeblending(img, allStarPosX, allStarPosY, magRatio, shift) ==
    [img |-> [kind |-> "deblended", src |-> img.src, star |-> img.star],
     realcx |-> allStarPosX[1] + shift, realcy |-> allStarPosY[1] + shift,
     deblended |-> TRUE]

\* Python list indexing: 0-based, negative indices count from the end.
PyIndex(list, i) == IF i < 0 THEN Len(list) + i + 1 ELSE i + 1

\* A search that never finds the star (mutant of __searchDonutListId).
SearchDonutListIdNever(donutList, starId) == -1

\* WEPController.__searchDonutListId: the 0-based index of the first DonutImage
\* whose starId is starId, or -1.
SearchDonutListId(donutList, starId) ==
    IF \E k \in 1..Len(donutList) : donutList[k].starId = starId
    THEN (CHOOSE k \in 1..Len(donutList) :
              /\ donutList[k].starId = starId
              /\ \A m \in 1..(k - 1) : donutList[m].starId # starId) - 1
    ELSE -1

\* The choice made without the "not doDeblending" pass-through (mutant): two
\* stars are always deblended.
SingleDonutAlwaysDeblend(res, doDeb, shift) ==
    IF Len(res.magRatio) = 1
    THEN [img |-> res.img, realcx |-> res.allStarPosX[1], realcy |-> res.allStarPosY[1],
          deblended |-> FALSE]
    ELSE IF Len(res.magRatio) = 2
    THEN DoDeblending(res.img, res.allStarPosX, res.allStarPosY, res.magRatio, shift)
    ELSE [img |-> None, realcx |-> None, realcy |-> None, deblended |-> FALSE]

\* The choice with the deblender reserved for three stars (mutant): a blended
\* pair is skipped.
SingleDonutSkipPair(res, doDeb, shift) ==
    IF (Len(res.magRatio) = 1 /\ doDeb) \/ ~doDeb
    THEN [img |-> res.img, realcx |-> res.allStarPosX[1], realcy |-> res.allStarPosY[1],
          deblended |-> FALSE]
    ELSE IF Len(res.magRatio) = 3 /\ doDeb
    THEN DoDeblending(res.img, res.allStarPosX, res.allStarPosY, res.magRatio, shift)
    ELSE [img |-> None, realcx |-> None, realcy |-> None, deblended |-> FALSE]

\* The choice with the deblender called for any blended cutout (mutant): two
\* or more stars are deblended when deblending is on.
SingleDonutDeblendCrowded(res, doDeb, shift) ==
    IF (Len(res.magRatio) = 1 /\ doDeb) \/ ~doDeb
    THEN [img |-> res.img, realcx |-> res.allStarPosX[1], realcy |-> res.allStarPosY[1],
          deblended |-> FALSE]
    ELSE DoDeblending(res.img, res.allStarPosX, res.allStarPosY, res.magRatio, shift)

\* getDonutMap, the choice between the raw cutout and the deblended one:
\* res is the extractor's result, shift the deblender's centroid shift.
SingleDonut(res, doDeb, shift) ==
    IF (Len(res.magRatio) = 1 /\ doDeb) \/ ~doDeb
    THEN [img |-> res.img, realcx |-> res.allStarPosX[1], realcy |-> res.allStarPosY[1],
          deblended |-> FALSE]
    ELSE IF Len(res.magRatio) = 2 /\ doDeb
    THEN DoDeblending(res.img, res.allStarPosX, res.allStarPosY, res.magRatio, shift)
    ELSE [img |-> None, realcx |-> None, realcy |-> None, deblended |-> FALSE]

\* Putting an image that never opens an entry with the extra-focal role
\* (mutant): a star seen only in the extra image gets no entry.
PutDonutPairOnly(donutList, starId, pixelX, pixelY, jj, img) ==
    LET found == SearchDonutListId(donutList, starId)
    IN IF found < 0 /\ jj = 1 THEN donutList
       ELSE LET list1 == IF found < 0
                         THEN Append(donutList, DonutImage(starId, pixelX, pixelY))
                         ELSE donutList
                donutIndex == IF found < 0 THEN SearchDonutListId(list1, starId) ELSE found
            IN [list1 EXCEPT ![PyIndex(list1, donutIndex)] =
                    IF jj = 0 THEN SetImg(@, img, None) ELSE SetImg(@, None, img)]

\* Putting that opens the entry but sets no image on it (mutant).
PutDonutEmptyEntry(donutList, starId, pixelX, pixelY, jj, img) ==
    IF SearchDonutListId(donutList, starId) < 0
    THEN Append(donutList, DonutImage(starId, pixelX, pixelY))
    ELSE donutList

\* getDonutMap, putting one image into a detector's donut list: the entry of
\* starId is created when absent, then the image of role jj (0 intra, 1 extra)
\* is set on it.
PutDonut(donutList, starId, pixelX, pixelY, jj, img) ==
    LET found == SearchDonutListId(donutList, starId)
        list1 == IF found < 0
                 THEN Append(donutList, DonutImage(starId, pixelX, pixelY))
                 ELSE donutList
        donutIndex == IF found < 0 THEN SearchDonutListId(list1, starId) ELSE found
    IN [list1 EXCEPT ![PyIndex(list1, donutIndex)] =
            IF jj = 0 THEN SetImg(@, img, None) ELSE SetImg(@, None, img)]

\* list(neighborStarMap[sensorName].SimobjID.keys())
SimobjIdList(entry) == entry.keys

\* the position of getDonutMap after the inner step (s, ii, jj)
AfterStep(s, ii, jj, n) ==
    IF jj = 0 THEN [at |-> "star", s |-> s, ii |-> ii, jj |-> 1]
    ELSE IF ii < n THEN [at |-> "star", s |-> s, ii |-> ii + 1, jj |-> 0]
    ELSE [at |-> "sensor", s |-> s + 1, ii |-> 0, jj |-> 0]

\* Head of the loop over wfsImgMap.keys(): configure the source processor and
\* read the detector's candidate list; a detector missing from neighborStarMap
\* raises KeyError.
DonutBeginSensor ==
    /\ pc.at = "sensor"
    /\ pc.s <= Len(wfsImgMap.keys)
    /\ LET sensorName == wfsImgMap.keys[pc.s] IN
        /\ sourProcSensor' = Str(AbbrevDetectorName(sensorName))
        /\ pc' = IF sensorName \notin DOMAIN neighborStarMap
                 THEN [pc EXCEPT !.at = "raised"]
                 ELSE IF Len(SimobjIdList(neighborStarMap[sensorName])) = 0
                 THEN [at |-> "sensor", s |-> pc.s + 1, ii |-> 0, jj |-> 0]
                 ELSE [at |-> "star", s |-> pc.s, ii |-> 1, jj |-> 0]
    /\ UNCHANGED <<neighborStarMap, wfsImgMap, doDeblending, donutMap, deblendCalls,
                   extractions, taskPc>>
    /\ UNCHANGED <<targetVars, ctlVars, dbVars, auxVars>>

\* One pass of the inner loop: candidate ii (1-based), focal role jj.
DonutStep ==
    /\ pc.at = "star"
    /\ LET sensorName == wfsImgMap.keys[pc.s]
           entry == neighborStarMap[sensorName]
           simobjIdList == SimobjIdList(entry)
           ccdImg == IF pc.jj = 0 THEN wfsImgMap.img[sensorName].intraImg
                     ELSE wfsImgMap.img[sensorName].extraImg
           res == GetSingleTargetImage(ccdImg, entry, pc.ii)
       IN
        /\ \E shift \in 0..MaxShift :
            LET one == SingleDonut(res, doDeblending, shift)
                old == IF sensorName \in DOMAIN donutMap THEN donutMap[sensorName] ELSE <<>>
            IN
            /\ deblendCalls' =
                 IF ccdImg # None /\ one.deblended
                 THEN Append(deblendCalls,
                        [sensor |-> sensorName, starId |-> simobjIdList[pc.ii], jj |-> pc.jj,
                         nStar |-> Len(res.magRatio), doDeblending |-> doDeblending,
                         realcx |-> one.realcx, realcy |-> one.realcy])
                 ELSE deblendCalls
            /\ donutMap' =
                 IF ccdImg # None /\ one.img # None
                 THEN (sensorName :>
                          PutDonut(old, simobjIdList[pc.ii], one.realcx + res.offsetX,
                                   one.realcy + res.offsetY, pc.jj, one.img)) @@ donutMap
                 ELSE donutMap
        /\ extractions' =
             IF ccdImg # None
             THEN Append(extractions,
                    [sensor |-> sensorName, ii |-> pc.ii, jj |-> pc.jj,
                     configured |-> sourProcSensor])
             ELSE extractions
        /\ pc' = AfterStep(pc.s, pc.ii, pc.jj, Len(simobjIdList))
    /\ UNCHANGED <<neighborStarMap, wfsImgMap, doDeblending, sourProcSensor, taskPc>>
    /\ UNCHANGED <<targetVars, ctlVars, dbVars, auxVars>>

\* return donutMap
DonutReturn ==
    /\ pc.at = "sensor"
    /\ pc.s > Len(wfsImgMap.keys)
    /\ pc' = [pc EXCEPT !.at = "done"]
    /\ UNCHANGED <<neighborStarMap, wfsImgMap, doDeblending, donutMap, sourProcSensor,
                   deblendCalls, extractions, taskPc>>
    /\ UNCHANGED <<targetVars, ctlVars, dbVars, auxVars>>

\* the empty dict
EmptyMap == [x \in {} |-> None]

\* Values of the variables of the operations a specification does not run.
IdleDonut ==
    /\ neighborStarMap = EmptyMap
    /\ wfsImgMap = [keys |-> <<>>, img |-> EmptyMap]
    /\ doDeblending = FALSE
    /\ donutMap = EmptyMap
    /\ pc = [at |-> "idle", s |-> 0, ii |-> 0, jj |-> 0]
    /\ sourProcSensor = None
    /\ deblendCalls = <<>>
    /\ extractions = <<>>
    /\ taskPc = EmptyMap

IdleTarget ==
    /\ sourSelc = [name |-> "LocalDb"]
    /\ dbCalls = <<>>
    /\ tsPc = "idle"
    /\ tsMaps = [nbr |-> EmptyMap, star |-> EmptyMap, wfs |-> EmptyMap]
    /\ tsQueried = tsMaps

IdleCtl ==
    /\ ctlPc = "idle"
    /\ ctlArg = None
    /\ isrCalls = <<>>
    /\ butlerGets = <<>>
    /\ imgMapOut = EmptyMap

IdleDb ==
    /\ dbRows = <<>>
    /\ dbCommitted = <<>>
    /\ dbPc = "idle"
    /\ dbArg = None

IdleWep ==
    /\ wepPc = "idle"
    /\ wepAlgo = None
    /\ wepResult = None
    /\ cfgFile = <<>>
    /\ cfgOut = None

IdleMw ==
    /\ eventStore = EmptyMap
    /\ telemetryStore = EmptyMap
    /\ mwLog = <<>>
    /\ mwLast = None

IdleFits ==
    /\ fsFiles = EmptyMap
    /\ fsDirs = {}
    /\ fitsDir = None
    /\ fitsArg = None
    /\ fitsRet = None

IdleAux == IdleWep /\ IdleMw /\ IdleFits

\* total length of the sequences ks[d], d in D
RECURSIVE SumLen(_, _)
SumLen(ks, D) ==
    IF D = {} THEN 0
    ELSE LET d == CHOOSE x \in D : TRUE IN Len(ks[d]) + SumLen(ks, D \ {d})

\* the images of detector d: each focal role present or missing
DefocalImageOf(d, hasIntra, hasExtra) ==
    DefocalImage(IF hasIntra THEN CcdImage(d, "intra") ELSE None,
                 IF hasExtra THEN CcdImage(d, "extra") ELSE None)

\* getDonutMap is entered with any image map over the detectors and any
\* neighbor-star map over a subset of the image map's detectors holding at
\* most MaxCand bright candidates.
DonutArgs ==
    /\ \E keys \in DistinctSeqs(Detectors, Cardinality(Detectors)) :
       \E D \in SUBSET Range(keys) :
       \E ks \in [D -> DistinctSeqs(CandIds, Cardinality(CandIds))] :
        /\ SumLen(ks, D) <= MaxCand
        /\ \E cn \in [D -> [CandIds -> 0..MaxNbr]] :
            /\ \A d \in D : \A c \in CandIds \ Range(ks[d]) : cn[d][c] = 0
            /\ neighborStarMap = [d \in D |-> NbrEntry(d, ks[d], cn[d], MaxNbr + 1)]
        /\ \E has \in [Range(keys) -> BOOLEAN \X BOOLEAN] :
            wfsImgMap = [keys |-> keys,
                         img |-> [d \in Range(keys) |-> DefocalImageOf(d, has[d][1], has[d][2])]]
    /\ doDeblending \in BOOLEAN

InitDonut ==
    /\ DonutArgs
    /\ donutMap = EmptyMap
    /\ pc = [at |-> "sensor", s |-> 1, ii |-> 0, jj |-> 0]
    /\ sourProcSensor = None
    /\ deblendCalls = <<>>
    /\ extractions = <<>>
    /\ taskPc = EmptyMap
    /\ IdleTarget /\ IdleCtl /\ IdleDb /\ IdleAux

NextDonut == DonutBeginSensor \/ DonutStep \/ DonutReturn

SpecDonut == InitDonut /\ [][NextDonut]_vars

----------------------------------------------------------------------------
\* getDonutMap with the bodies of its loop over wfsImgMap.keys() run as
\* concurrent tasks, one per detector, that share the controller's source
\* processor and the donut map. A task is preempted between its statements.

\* Task of detector d, head of the body: configure the shared source processor
\* and read the detector's candidate list.
ParBeginSensor(d) ==
    /\ d \in DOMAIN taskPc
    /\ taskPc[d].at = "sensor"
    /\ sourProcSensor' = Str(AbbrevDetectorName(d))
    /\ taskPc' = [taskPc EXCEPT ![d] =
                    IF d \notin DOMAIN neighborStarMap
                    THEN [at |-> "raised", ii |-> 0, jj |-> 0]
                    ELSE IF Len(SimobjIdList(neighborStarMap[d])) = 0
                    THEN [at |-> "done", ii |-> 0, jj |-> 0]
                    ELSE [at |-> "star", ii |-> 1, jj |-> 0]]
    /\ UNCHANGED <<neighborStarMap, wfsImgMap, doDeblending, donutMap, deblendCalls,
                   extractions, pc>>
    /\ UNCHANGED <<targetVars, ctlVars, dbVars, auxVars>>

\* Task of detector d, one pass of the inner loop: the extraction is made by
\* the shared source processor as it is configured at that moment.
ParStep(d) ==
    /\ d \in DOMAIN taskPc
    /\ taskPc[d].at = "star"
    /\ LET entry == neighborStarMap[d]
           simobjIdList == SimobjIdList(entry)
           ii == taskPc[d].ii
           jj == taskPc[d].jj
           ccdImg == IF jj = 0 THEN wfsImgMap.img[d].intraImg ELSE wfsImgMap.img[d].extraImg
           res == GetSingleTargetImage(ccdImg, entry, ii)
       IN
        /\ \E shift \in 0..MaxShift :
            LET one == SingleDonut(res, doDeblending, shift)
                old == IF d \in DOMAIN donutMap THEN donutMap[d] ELSE <<>>
            IN
            /\ deblendCalls' =
                 IF ccdImg # None /\ one.deblended
                 THEN Append(deblendCalls,
                        [sensor |-> d, starId |-> simobjIdList[ii], jj |-> jj,
                         nStar |-> Len(res.magRatio), doDeblending |-> doDeblending,
                         realcx |-> one.realcx, realcy |-> one.realcy])
                 ELSE deblendCalls
            /\ donutMap' =
                 IF ccdImg # None /\ one.img # None
                 THEN (d :> PutDonut(old, simobjIdList[ii], one.realcx + res.offsetX,
                                     one.realcy + res.offsetY, jj, one.img)) @@ donutMap
                 ELSE donutMap
        /\ extractions' =
             IF ccdImg # None
             THEN Append(extractions,
                    [sensor |-> d, ii |-> ii, jj |-> jj, configured |-> sourProcSensor])
             ELSE extractions
        /\ taskPc' = [taskPc EXCEPT ![d] =
                        IF jj = 0 THEN [at |-> "star", ii |-> ii, jj |-> 1]
                        ELSE IF ii < Len(simobjIdList)
                        THEN [at |-> "star", ii |-> ii + 1, jj |-> 0]
                        ELSE [at |-> "done", ii |-> 0, jj |-> 0]]
    /\ UNCHANGED <<neighborStarMap, wfsImgMap, doDeblending, sourProcSensor, pc>>
    /\ UNCHANGED <<targetVars, ctlVars, dbVars, auxVars>>

\* The tasks are joined: getDonutMap returns donutMap, or raises what a task
\* raised.
ParJoin ==
    /\ pc.at = "join"
    /\ \A d \in DOMAIN taskPc : taskPc[d].at \in {"done", "raised"}
    /\ pc' = [pc EXCEPT !.at = IF \E d \in DOMAIN taskPc : taskPc[d].at = "raised"
                               THEN "raised" ELSE "done"]
    /\ UNCHANGED <<neighborStarMap, wfsImgMap, doDeblending, donutMap, sourProcSensor,
                   deblendCalls, extractions, taskPc>>
    /\ UNCHANGED <<targetVars, ctlVars, dbVars, auxVars>>

InitDonutPar ==
    /\ DonutArgs
    /\ donutMap = EmptyMap
    /\ pc = [at |-> "join", s |-> 0, ii |-> 0, jj |-> 0]
    /\ sourProcSensor = None
    /\ deblendCalls = <<>>
    /\ extractions = <<>>
    /\ taskPc = [d \in Range(wfsImgMap.keys) |-> [at |-> "sensor", ii |-> 0, jj |-> 0]]
    /\ IdleTarget /\ IdleCtl /\ IdleDb /\ IdleAux

NextDonutPar ==
    \/ \E d \in Detectors : ParBeginSensor(d)
    \/ \E d \in Detectors : ParStep(d)
    \/ ParJoin

SpecDonutPar == InitDonutPar /\ [][NextDonutPar]_vars

----------------------------------------------------------------------------
\* WEPController.getTargetStarByFile and __analyzeStarMap.

\* SourceSelector.LocalDb, the name of the local database kind
LocalDb == "LocalDb"
\* the name of the remote (UW) database kind
RemoteDb == "UWdb"

\* dict without the keys in K
WithoutKeys(m, K) == [x \in DOMAIN m \ K |-> m[x]]

\* __analyzeStarMap that forgets the sensor-corner map (mutant)
AnalyzeStarMapKeepCorners(neighborStarMap0, starMap, wavefrontSensors) ==
    LET noStarSensorList == {aKey \in DOMAIN starMap : Len(starMap[aKey].RA) = 0}
    IN [raised |-> FALSE,
        nbr |-> WithoutKeys(neighborStarMap0, noStarSensorList),
        star |-> WithoutKeys(starMap, noStarSensorList),
        wfs |-> wavefrontSensors]

\* WEPController.__analyzeStarMap: the sensors whose star map holds no star are
\* popped from the three maps; popping a key that a map lacks raises KeyError.
AnalyzeStarMap(neighborStarMap0, starMap, wavefrontSensors) ==
    LET noStarSensorList == {aKey \in DOMAIN starMap : Len(starMap[aKey].RA) = 0}
    IN IF noStarSensorList \subseteq (DOMAIN neighborStarMap0 \cap DOMAIN wavefrontSensors)
       THEN [raised |-> FALSE,
             nbr |-> WithoutKeys(neighborStarMap0, noStarSensorList),
             star |-> WithoutKeys(starMap, noStarSensorList),
             wfs |-> WithoutKeys(wavefrontSensors, noStarSensorList)]
       ELSE [raised |-> TRUE, nbr |-> neighborStarMap0, star |-> starMap,
             wfs |-> wavefrontSensors]

\* StarData of a detector with stars 1..n
StarData(n) ==
    [SimobjID |-> [i \in 1..n |-> i], RA |-> [i \in 1..n |-> 10 * i],
     Decl |-> [i \in 1..n |-> 20 * i]]

\* corners of detector d
SensorCorners(d) == [sensor |-> d]

\* the check that skips nothing (mutant): any database kind goes on
AfterDbCheckAny(selector) == "connect"

\* getTargetStarByFile, the check of the database kind
AfterDbCheck(selector) == IF selector.name # LocalDb THEN "raised" ELSE "connect"

\* raise TypeError unless the source selector uses the local database; then
\* read the filter
TargetCheck ==
    /\ tsPc = "check"
    /\ tsPc' = AfterDbCheck(sourSelc)
    /\ UNCHANGED <<sourSelc, dbCalls, tsMaps, tsQueried>>
    /\ UNCHANGED <<donutVars, ctlVars, dbVars, auxVars>>

\* a session step that leaves the connection open (mutant): the disconnect is
\* passed over
TargetCallNoDisconnect(at, call, next) ==
    /\ tsPc = at
    /\ dbCalls' = IF call = "disconnect" THEN dbCalls ELSE Append(dbCalls, call)
    /\ tsPc' = next
    /\ UNCHANGED <<sourSelc, tsMaps, tsQueried>>
    /\ UNCHANGED <<donutVars, ctlVars, dbVars, auxVars>>

\* a step of the catalog session: one call on the selector or its database
TargetCall(at, call, next) ==
    /\ tsPc = at
    /\ dbCalls' = Append(dbCalls, call)
    /\ tsPc' = next
    /\ UNCHANGED <<sourSelc, tsMaps, tsQueried>>
    /\ UNCHANGED <<donutVars, ctlVars, dbVars, auxVars>>

\* self.sourSelc.connect(dbAdress)
TargetConnect == TargetCall("connect", "connect", "createTable")

\* self.sourSelc.db.createTable(aFilter, tableName)
TargetCreateTable == TargetCall("createTable", "createTable", "insertDataByFile")

\* self.sourSelc.db.insertDataByFile(aFilter, tableName, skyInfoFilePath, skiprows=1)
TargetInsertDataByFile == TargetCall("insertDataByFile", "insertDataByFile", "getTargetStar")

\* self.sourSelc.getTargetStar(...): for every detector the stars on it and,
\* among them, the bright candidates with their neighbors
TargetGetTargetStar ==
    /\ tsPc = "getTargetStar"
    /\ dbCalls' = Append(dbCalls, "getTargetStar")
    /\ \E num \in [Detectors -> 0..(MaxNbr + 1)] :
       \E ks \in [Detectors -> DistinctSeqs(CandIds, Cardinality(CandIds))] :
        /\ \A d \in Detectors : Range(ks[d]) \subseteq 1..num[d]
        /\ \E cn \in [Detectors -> [CandIds -> 0..MaxNbr]] :
            /\ \A d \in Detectors : \A c \in CandIds :
                /\ c \notin Range(ks[d]) => cn[d][c] = 0
                /\ cn[d][c] < num[d] \/ cn[d][c] = 0
            /\ tsMaps' = [nbr |-> [d \in Detectors |-> NbrEntry(d, ks[d], cn[d], num[d])],
                          star |-> [d \in Detectors |-> StarData(num[d])],
                          wfs |-> [d \in Detectors |-> SensorCorners(d)]]
    /\ tsQueried' = tsMaps'
    /\ tsPc' = "analyze"
    /\ UNCHANGED sourSelc
    /\ UNCHANGED <<donutVars, ctlVars, dbVars, auxVars>>

\* self.__analyzeStarMap(neighborStarMap, starMap, wavefrontSensors)
TargetAnalyze ==
    /\ tsPc = "analyze"
    /\ LET r == AnalyzeStarMap(tsMaps.nbr, tsMaps.star, tsMaps.wfs) IN
        /\ tsMaps' = [nbr |-> r.nbr, star |-> r.star, wfs |-> r.wfs]
        /\ tsPc' = IF r.raised THEN "raised" ELSE "deleteTable"
    /\ UNCHANGED <<sourSelc, dbCalls, tsQueried>>
    /\ UNCHANGED <<donutVars, ctlVars, dbVars, auxVars>>

\* self.sourSelc.db.deleteTable(tableName)
TargetDeleteTable == TargetCall("deleteTable", "deleteTable", "disconnect")

\* self.sourSelc.disconnect(); return the three maps
TargetDisconnect == TargetCall("disconnect", "disconnect", "done")

InitTarget ==
    /\ sourSelc \in {[name |-> LocalDb], [name |-> RemoteDb]}
    /\ dbCalls = <<>>
    /\ tsPc = "check"
    /\ tsMaps = [nbr |-> EmptyMap, star |-> EmptyMap, wfs |-> EmptyMap]
    /\ tsQueried = tsMaps
    /\ IdleDonut /\ IdleCtl /\ IdleDb /\ IdleAux

NextTarget ==
    \/ TargetCheck
    \/ TargetConnect
    \/ TargetCreateTable
    \/ TargetInsertDataByFile
    \/ TargetGetTargetStar
    \/ TargetAnalyze
    \/ TargetDeleteTable
    \/ TargetDisconnect

SpecTarget == InitTarget /\ [][NextTarget]_vars

----------------------------------------------------------------------------
\* WEPController.__getSensorInfo, doISR and getPostISRDefocalImgMap.

Digits == {"0", "1", "2", "3", "4", "5", "6", "7", "8", "9"}

\* characters matched by \s
Whitespace == {" ", "\n", "\t"}

\* all sequences over S of length at most n
SeqsUpTo(S, n) == UNION {[1..k -> S] : k \in 0..n}

\* WEPController.__getSensorInfo: re.match of
\*     R:(\d,\d) S:(\d,\d)(?:,([A,B]))?$
\* at the start of sensorName.  The class [A,B] holds the three characters
\* A , B and $ matches at the end of the string or before a final newline.
GetSensorInfo(sensorName) ==
    LET n == Len(sensorName)
        head == /\ n >= 11
                /\ sensorName[1] = "R" /\ sensorName[2] = ":"
                /\ sensorName[3] \in Digits /\ sensorName[4] = "," /\ sensorName[5] \in Digits
                /\ sensorName[6] = " "
                /\ sensorName[7] = "S" /\ sensorName[8] = ":"
                /\ sensorName[9] \in Digits /\ sensorName[10] = "," /\ sensorName[11] \in Digits
        AtEnd(q) == q = n + 1 \/ (q = n /\ sensorName[n] = "\n")
    IN IF head /\ n >= 13 /\ sensorName[12] = "," /\ sensorName[13] \in {"A", ",", "B"}
          /\ AtEnd(14)
       THEN [raft |-> Str(SubSeq(sensorName, 3, 5)),
             sensor |-> Str(SubSeq(sensorName, 9, 11)),
             channel |-> Str(<<sensorName[13]>>)]
       ELSE IF head /\ AtEnd(12)
       THEN [raft |-> Str(SubSeq(sensorName, 3, 5)),
             sensor |-> Str(SubSeq(sensorName, 9, 11)),
             channel |-> None]
       ELSE [raft |-> None, sensor |-> None, channel |-> None]

\* the corner wavefront sensor "R:0,0 S:2,2" of getWfsList, without its channel
CornerSensor == CanonicalName("0", "0", "2", "2")
\* "R22_S11", an abbreviated name
AbbrevSensor == <<"R", "2", "2", "_", "S", "1", "1">>
\* "R:2,2 S:1,x", a letter where a digit belongs
LetterSensor == CanonicalName("2", "2", "1", "x")
\* " R:2,2 S:1,1", a leading blank
BlankSensor == <<" ">> \o SensorA

\* the sensor names given to the controller: a name part followed by up to
\* MaxSuffix further characters
SensorNames ==
    {h \o t : h \in {SensorA, CornerSensor, AbbrevSensor, LetterSensor, BlankSensor},
              t \in SeqsUpTo({",", "A", "B", "C", "\n"}, MaxSuffix)}

\* WEPController.doISR: raise RuntimeError for a name __getSensorInfo rejects,
\* else call the ISR wrapper (with channel=None).
DoISR ==
    /\ ctlPc = "idle"
    /\ \E sensorName \in SensorNames, visit \in {9007000, 9007001} :
        LET info == GetSensorInfo(sensorName) IN
        /\ ctlArg' = [op |-> "doISR", sensorName |-> sensorName, visit |-> visit,
                      info |-> info]
        /\ IF info.raft # None
           THEN /\ isrCalls' = Append(isrCalls,
                        [visit |-> visit, snap |-> 0, raft |-> info.raft,
                         sensor |-> info.sensor, channel |-> None])
                /\ ctlPc' = "returned"
           ELSE /\ isrCalls' = isrCalls
                /\ ctlPc' = "raised"
    /\ UNCHANGED <<butlerGets, imgMapOut>>
    /\ UNCHANGED <<donutVars, targetVars, dbVars, auxVars>>

\* the decimal digit of a snap number, as "%d" prints it
DigitChar(k) == CASE k = 0 -> "0" [] k = 1 -> "1" [] k = 2 -> "2" [] k = 3 -> "3"
                  [] k = 4 -> "4" [] k = 5 -> "5" [] k = 6 -> "6" [] k = 7 -> "7"
                  [] k = 8 -> "8" [] k = 9 -> "9"

\* the longest prefix of fileName without whitespace
RECURSIVE NonBlankPrefixLen(_, _)
NonBlankPrefixLen(fileName, k) ==
    IF k < Len(fileName) /\ fileName[k + 1] \notin Whitespace
    THEN NonBlankPrefixLen(fileName, k + 1)
    ELSE k

\* re.match(r"\S*<matchName>_E00<snap>\S*", fileName): the matched text, or None
MatchFile(fileName, matchName, snap) ==
    LET lit == matchName \o <<"_", "E", "0", "0", DigitChar(snap)>>
        e == NonBlankPrefixLen(fileName, 0)
    IN IF \E k \in 0..(e - Len(lit)) : SubSeq(fileName, k + 1, k + Len(lit)) = lit
       THEN Str(SubSeq(fileName, 1, e))
       ELSE None

\* WEPController.__searchFileName: the match of the first matching file
RECURSIVE SearchFileName(_, _, _)
SearchFileName(fileList, matchName, snap) ==
    IF fileList = <<>> THEN None
    ELSE IF MatchFile(Head(fileList), matchName, snap) # None
    THEN MatchFile(Head(fileList), matchName, snap)
    ELSE SearchFileName(Tail(fileList), matchName, snap)

\* the image the butler returns for a dataId
PostISRImage(dataId) == [kind |-> "postISRCCD", dataId |-> dataId]

\* the image read from a FITS file
FitsImage(fileName) == [kind |-> "fits", file |-> fileName]

\* getPostISRDefocalImgMap, the body of the loop for one sensor name: the new
\* image map and the dataIds requested from the butler
PostISRForSensor(imgMap, sensorName, obsIdList, wfsDir, wfsFileList, snap) ==
    LET info == GetSensorInfo(sensorName)
        dataId(ii) == [visit |-> obsIdList.items[ii], snap |-> snap, raft |-> info.raft,
                       sensor |-> info.sensor]
        gets == IF obsIdList # None THEN <<dataId(1), dataId(2)>> ELSE <<>>
        map1 == IF obsIdList # None
                THEN (sensorName :> DefocalImage(PostISRImage(dataId(1)),
                                                PostISRImage(dataId(2)))) @@ imgMap
                ELSE imgMap
        matchFileName == SearchFileName(wfsFileList, AbbrevDetectorName(sensorName), snap)
        wfsImg == FitsImage(matchFileName)
        map2 == IF wfsDir # None /\ matchFileName # None
                THEN (sensorName :>
                        (IF info.channel = Str(<<"A">>)
                         THEN SetImg(DefocalImage(None, None), wfsImg, None)
                         ELSE IF info.channel = Str(<<"B">>)
                         THEN SetImg(DefocalImage(None, None), None, wfsImg)
                         ELSE DefocalImage(None, None))) @@ map1
                ELSE map1
    IN [map |-> map2, gets |-> gets]

\* getPostISRDefocalImgMap, the loop over sensorNameList
RECURSIVE PostISRLoop(_, _, _, _, _, _, _)
PostISRLoop(imgMap, gets, sensorNameList, obsIdList, wfsDir, wfsFileList, snap) ==
    IF sensorNameList = <<>> THEN [map |-> imgMap, gets |-> gets]
    ELSE LET r == PostISRForSensor(imgMap, Head(sensorNameList), obsIdList, wfsDir,
                                   wfsFileList, snap)
         IN PostISRLoop(r.map, gets \o r.gets, Tail(sensorNameList), obsIdList, wfsDir,
                        wfsFileList, snap)

\* "<abbrev>_E00<snap>.f", an image file of a sensor
ImageFile(sensorName, snap) ==
    AbbrevDetectorName(sensorName) \o <<"_", "E", "0", "0", DigitChar(snap), ".", "f">>

\* the names of the files that may lie in the wavefront-sensor directory
WfsFiles ==
    {ImageFile(CornerSensor \o <<",", "A">>, 0), ImageFile(CornerSensor \o <<",", "B">>, 0),
     ImageFile(CornerSensor \o <<",", "A">>, 1), ImageFile(SensorA, 0),
     <<"a", " ">> \o ImageFile(CornerSensor \o <<",", "B">>, 0)}

\* names rejected by __getSensorInfo are not abbreviated: the directory is
\* given only together with names it accepts as written in getWfsList
WfsNames == {CornerSensor \o <<",", "A">>, CornerSensor \o <<",", "B">>, SensorA}

\* sensor names passed with observation ids
ObsNames == WfsNames \cup {AbbrevSensor, CornerSensor \o <<",", ",">>, LetterSensor}

\* WEPController.getPostISRDefocalImgMap
GetPostISRDefocalImgMap ==
    /\ ctlPc = "idle"
    /\ \E obsIdList \in {None, PyList(<<9007001, 9007000>>)},
          wfsDir \in {None, Str(<<"w", "f", "s">>)},
          snap \in {0, 1} :
       \E sensorNameList \in SeqsUpTo(IF wfsDir # None THEN WfsNames ELSE ObsNames,
                                      MaxSensors),
          wfsFileList \in IF wfsDir # None THEN DistinctSeqs(WfsFiles, MaxFiles)
                          ELSE {<<>>} :
        LET r == PostISRLoop(EmptyMap, <<>>, sensorNameList, obsIdList, wfsDir,
                             wfsFileList, snap)
        IN /\ ctlArg' = [op |-> "getPostISRDefocalImgMap",
                         sensorNameList |-> sensorNameList, obsIdList |-> obsIdList,
                         wfsDir |-> wfsDir, wfsFileList |-> wfsFileList, snap |-> snap]
           /\ butlerGets' = r.gets
           /\ imgMapOut' = r.map
           /\ ctlPc' = "returned"
    /\ UNCHANGED isrCalls
    /\ UNCHANGED <<donutVars, targetVars, dbVars, auxVars>>

InitSensor == IdleCtl /\ IdleDonut /\ IdleTarget /\ IdleDb /\ IdleAux

NextSensor == DoISR \/ GetPostISRDefocalImgMap

SpecSensor == InitSensor /\ [][NextSensor]_vars

----------------------------------------------------------------------------
\* LocalDatabase: the table BrightStarCatalogG as the connection sees it
\* (dbRows, with uncommitted changes) and as committed (dbCommitted).

\* the camera filter of the table
CameraFilter == "g"

\* the magnitude column of a filter: cameraFilter + "mag"
MagColumn(cameraFilter) ==
    CASE cameraFilter = "u" -> "umag" [] cameraFilter = "g" -> "gmag"
      [] cameraFilter = "r" -> "rmag" [] cameraFilter = "i" -> "imag"
      [] cameraFilter = "z" -> "zmag" [] cameraFilter = "y" -> "ymag"

\* the items updateData lets the caller change
UpdatableItems == {"simobjid", "ra", "decl", "mag", "bright_star"}

\* The columns ra and decl hold angles as integers, in units of 1e-7 degree.

\* "%f" % x read back by SQL: the angle rounded to six decimals
FormatF(x) == ((x + 5) \div 10) * 10

\* LocalDatabase.searchRaDecl: the ids of the rows whose ra and decl equal the
\* values as "%f" renders them
SearchRaDecl(rows, cameraFilter, ra, decl) ==
    LET hit(row) == row.ra = FormatF(ra) /\ row.decl = FormatF(decl)
        found == SelectSeq(rows, hit)
    IN [k \in 1..Len(found) |-> found[k].id]

\* UPDATE ... SET column=value WHERE id=anId
SqlUpdate(rows, column, value, anId) ==
    [k \in 1..Len(rows) |->
        IF rows[k].id = anId THEN [rows[k] EXCEPT ![column] = value] ELSE rows[k]]

\* updateData, the update loop from index ii (1-based here): it stops with
\* IndexError when listOfItemToChange or listOfNewValue is too short
RECURSIVE UpdateLoop(_, _, _, _, _, _)
UpdateLoop(rows, ii, cameraFilter, listID, listOfItemToChange, listOfNewValue) ==
    IF ii > Len(listID) THEN [rows |-> rows, pc |-> "returned"]
    ELSE IF ii > Len(listOfItemToChange) \/ ii > Len(listOfNewValue)
    THEN [rows |-> rows, pc |-> "IndexError"]
    ELSE LET itemToChange == IF listOfItemToChange[ii] = "mag"
                             THEN MagColumn(cameraFilter)
                             ELSE listOfItemToChange[ii]
         IN UpdateLoop(SqlUpdate(rows, itemToChange, listOfNewValue[ii], listID[ii]),
                       ii + 1, cameraFilter, listID, listOfItemToChange, listOfNewValue)

\* updateData that checks each item only when its update is due (mutant)
RECURSIVE UpdateLoopLazyCheck(_, _, _, _, _, _)
UpdateLoopLazyCheck(rows, ii, cameraFilter, listID, listOfItemToChange, listOfNewValue) ==
    IF ii > Len(listID) THEN [rows |-> rows, pc |-> "returned"]
    ELSE IF ii > Len(listOfItemToChange) \/ ii > Len(listOfNewValue)
    THEN [rows |-> rows, pc |-> "IndexError"]
    ELSE IF listOfItemToChange[ii] \notin UpdatableItems
    THEN [rows |-> rows, pc |-> "ValueError"]
    ELSE LET itemToChange == IF listOfItemToChange[ii] = "mag"
                             THEN MagColumn(cameraFilter)
                             ELSE listOfItemToChange[ii]
         IN UpdateLoopLazyCheck(
                SqlUpdate(rows, itemToChange, listOfNewValue[ii], listID[ii]),
                ii + 1, cameraFilter, listID, listOfItemToChange, listOfNewValue)

UpdateDataLazyCheck(rows, committed, cameraFilter, listID, listOfItemToChange, listOfNewValue) ==
    LET r == UpdateLoopLazyCheck(rows, 1, cameraFilter, listID, listOfItemToChange,
                                 listOfNewValue)
    IN [rows |-> r.rows,
        committed |-> IF r.pc = "returned" THEN r.rows ELSE committed,
        pc |-> r.pc]

\* LocalDatabase.updateData: ValueError before any update when an item is not
\* updatable; else the updates in order, then the commit.
UpdateData(rows, committed, cameraFilter, listID, listOfItemToChange, listOfNewValue) ==
    IF \E k \in 1..Len(listOfItemToChange) : listOfItemToChange[k] \notin UpdatableItems
    THEN [rows |-> rows, committed |-> committed, pc |-> "ValueError"]
    ELSE LET r == UpdateLoop(rows, 1, cameraFilter, listID, listOfItemToChange,
                             listOfNewValue)
         IN [rows |-> r.rows,
             committed |-> IF r.pc = "returned" THEN r.rows ELSE committed,
             pc |-> r.pc]

\* the two rows the table holds: stars 123 and 456
BaseTable ==
    << [id |-> 1, simobjid |-> 123, ra |-> 10, decl |-> 210, gmag |-> 2, bright_star |-> 1],
       [id |-> 2, simobjid |-> 456, ra |-> 20, decl |-> 220, gmag |-> 3, bright_star |-> 0] >>

\* new values passed to updateData: an angle of six decimals and one of seven
NewValues == {30, 34}

\* DELETE ... WHERE id=anId
SqlDelete(rows, anId) ==
    LET keep(row) == row.id # anId IN SelectSeq(rows, keep)

\* deleteData, the loop over listID from index ii on (1-based here)
RECURSIVE DeleteLoop(_, _, _)
DeleteLoop(rows, ii, listID) ==
    IF ii > Len(listID) THEN rows
    ELSE DeleteLoop(SqlDelete(rows, listID[ii]), ii + 1, listID)

\* a deleteData that stops after the first id (mutant)
DeleteDataFirstOnly(rows, committed, cameraFilter, listID) ==
    LET r == IF Len(listID) = 0 THEN rows ELSE SqlDelete(rows, listID[1])
    IN [rows |-> r, committed |-> r, pc |-> "deleted"]

\* LocalDatabase.deleteData: one DELETE per id, then the commit
DeleteData(rows, committed, cameraFilter, listID) ==
    LET r == DeleteLoop(rows, 1, listID)
    IN [rows |-> r, committed |-> r, pc |-> "deleted"]

\* a call of updateData on the connection
DbUpdateData ==
    /\ dbPc = "idle"
    /\ \E listID \in SeqsUpTo({1, 2, 3}, MaxUpd),
          listOfItemToChange \in SeqsUpTo({"ra", "mag", "id"}, MaxUpd),
          listOfNewValue \in SeqsUpTo(NewValues, MaxUpd) :
        LET r == UpdateData(dbRows, dbCommitted, CameraFilter, listID, listOfItemToChange,
                            listOfNewValue)
        IN /\ dbArg' = [op |-> "updateData", listID |-> listID,
                        listOfItemToChange |-> listOfItemToChange,
                        listOfNewValue |-> listOfNewValue,
                        rows |-> dbRows, committed |-> dbCommitted]
           /\ dbRows' = r.rows
           /\ dbCommitted' = r.committed
           /\ dbPc' = r.pc
    /\ UNCHANGED <<donutVars, targetVars, ctlVars, auxVars>>

\* updateData is called on a connection whose table is committed, or holds
\* the uncommitted update left by an earlier call that failed partway
InitDb ==
    /\ dbCommitted = BaseTable
    /\ dbRows \in {BaseTable, SqlUpdate(BaseTable, "ra", 9, 1)}
    /\ dbPc = "idle"
    /\ dbArg = None
    /\ IdleDonut /\ IdleTarget /\ IdleCtl /\ IdleAux

\* a call of deleteData on the connection
DbDeleteData ==
    /\ dbPc = "idle"
    /\ \E listID \in SeqsUpTo({1, 2, 3}, MaxUpd) :
        LET r == DeleteData(dbRows, dbCommitted, CameraFilter, listID)
        IN /\ dbArg' = [op |-> "deleteData", listID |-> listID,
                        rows |-> dbRows, committed |-> dbCommitted]
           /\ dbRows' = r.rows
           /\ dbCommitted' = r.committed
           /\ dbPc' = r.pc
    /\ UNCHANGED <<donutVars, targetVars, ctlVars, auxVars>>

NextDb == DbUpdateData \/ DbDeleteData

SpecDb == InitDb /\ [][NextDb]_vars

----------------------------------------------------------------------------
\* runWEP and __readConfigFile (testScript/cwfs/runWEP.py).

\* largest number of lines of a configuration file
MaxLines == 5
\* iteration cap of the algorithm configuration
MaxIter == 3
\* largest value of a Zernike coefficient, in units of the tolerance
MaxZer == 2
\* number of Zernike coefficients kept
NumZer == 2

\* str.strip(): leading and trailing whitespace removed
RECURSIVE LStrip(_)
LStrip(line) ==
    IF Len(line) > 0 /\ line[1] \in Whitespace THEN LStrip(Tail(line)) ELSE line

RECURSIVE RStrip(_)
RStrip(line) ==
    IF Len(line) > 0 /\ line[Len(line)] \in Whitespace
    THEN RStrip(SubSeq(line, 1, Len(line) - 1))
    ELSE line

Strip(line) == RStrip(LStrip(line))

\* str.startswith(prefix)
StartsWith(line, prefix) ==
    Len(line) >= Len(prefix) /\ SubSeq(line, 1, Len(prefix)) = prefix

\* an inversion that always yields -1 (mutant): a block once opened never closes
BitNotStuck(x) == -1

\* Python ~x on an int (False is 0, True is 1): bitwise inversion
BitNot(x) == -x - 1

\* Python truth value of an int
Truthy(x) == x # 0

\* __readConfigFile, the loop over the lines from line ii on: iscomment is
\* the int/bool flag, out the lines written so far
RECURSIVE ReadLines(_, _, _, _)
ReadLines(lines, ii, iscomment, out) ==
    IF ii > Len(lines) THEN out
    ELSE LET line == Strip(lines[ii])
             iscomment1 == IF StartsWith(line, <<"#", "#", "#">>)
                           THEN BitNot(iscomment) ELSE iscomment
         IN ReadLines(lines, ii + 1, iscomment1,
                      IF ~StartsWith(line, <<"#">>) /\ ~Truthy(iscomment1) /\ Len(line) > 0
                      THEN Append(out, [kind |-> "line", chars |-> line \o <<"\n">>])
                      ELSE out)

\* __readConfigFile(fout, config, configName): what is written to fout, after
\* what fout already holds
ReadConfigFile(fout, lines, configName) ==
    ReadLines(lines, 1, 0,
              fout \o << [kind |-> "line", chars |-> <<"\n">>],
                         [kind |-> "header", configName |-> configName] >>)

\* Lines a configuration file may hold (each ends with a newline): blank
\* lines, key-value pairs, single-line comments, block delimiters.
ConfigLines ==
    { <<"\n">>, <<" ", "\t", "\n">>,
      <<"k", " ", "v", "\n">>, <<" ", "k", " ", "v", " ", "\n">>, <<"k", "#", "\n">>,
      <<"#", "c", "\n">>, <<"#", "#", "\n">>,
      <<"#", "#", "#", "\n">>, <<" ", "#", "#", "#", " ", "\n">>,
      <<"#", "#", "#", "#", "x", "\n">> }

\* the algorithm configuration file used by a run of runWEP
AlgoFile ==
    << <<"#", "c", "\n">>, <<"#", "#", "#", "\n">>, <<"k", " ", "v", "\n">>,
       <<"#", "#", "#", "\n">>, <<"k", " ", "v", "\n">> >>

\* Algorithm.config: the solver before its first iteration
AlgorithmConfig(useAlgorithm) ==
    [useAlgorithm |-> useAlgorithm, maxIter |-> MaxIter, iter |-> 0,
     zer |-> [k \in 1..NumZer |-> 0], converged |-> FALSE]

\* change of the coefficient vector between two iterations, in units of the
\* tolerance
RECURSIVE ZerChange(_, _, _)
ZerChange(old, new, k) ==
    IF k = 0 THEN 0
    ELSE (IF new[k] >= old[k] THEN new[k] - old[k] ELSE old[k] - new[k])
         + ZerChange(old, new, k - 1)

\* one iteration of Algorithm.runIt that ends with coefficients zer
RunItIteration(algo, zer) ==
    [algo EXCEPT !.iter = @ + 1, !.zer = zer,
                 !.converged = ZerChange(algo.zer, zer, NumZer) < 1]

\* the value runWEP returns: algo.zer4UpNm, the array of coefficients
ReturnValue(algo) == [kind |-> "ndarray", values |-> algo.zer]

\* runWEP up to algo.config: images, instrument and algorithm are set
WepSetup ==
    /\ wepPc = "start"
    /\ wepAlgo' = AlgorithmConfig(wepAlgo.useAlgorithm) @@ [showConf |-> wepAlgo.showConf]
    /\ wepPc' = "runIt"
    /\ UNCHANGED <<wepResult, cfgFile, cfgOut>>
    /\ UNCHANGED <<donutVars, targetVars, ctlVars, dbVars, mwVars, fitsVars>>

\* algo.runIt, one iteration: the loop ends when the change drops below the
\* tolerance or the iteration cap is hit
WepIterate ==
    /\ wepPc = "runIt"
    /\ \E zer \in [1..NumZer -> 0..MaxZer] :
        /\ wepAlgo' = RunItIteration(wepAlgo, zer)
        /\ wepPc' = IF wepAlgo'.converged \/ wepAlgo'.iter >= wepAlgo.maxIter
                    THEN "ran" ELSE "runIt"
    /\ UNCHANGED <<wepResult, cfgFile, cfgOut>>
    /\ UNCHANGED <<donutVars, targetVars, ctlVars, dbVars, mwVars, fitsVars>>

\* the rest of runWEP: __outParam when showConf, then return algo.zer4UpNm
WepReturn ==
    /\ wepPc = "ran"
    /\ cfgOut' = IF wepAlgo.showConf
                 THEN PyList(ReadConfigFile(ReadConfigFile(<<>>, cfgFile, "instrument"),
                                            cfgFile, "algorithm"))
                 ELSE cfgOut
    /\ wepResult' = ReturnValue(wepAlgo)
    /\ wepPc' = "returned"
    /\ UNCHANGED <<wepAlgo, cfgFile>>
    /\ UNCHANGED <<donutVars, targetVars, ctlVars, dbVars, mwVars, fitsVars>>

InitWep ==
    /\ wepPc = "start"
    /\ \E useAlgorithm \in {"fft", "exp"}, showConf \in BOOLEAN :
        wepAlgo = [useAlgorithm |-> useAlgorithm, showConf |-> showConf]
    /\ wepResult = None
    /\ cfgFile = AlgoFile
    /\ cfgOut = None
    /\ IdleDonut /\ IdleTarget /\ IdleCtl /\ IdleDb /\ IdleMw /\ IdleFits

NextWep == WepSetup \/ WepIterate \/ WepReturn

SpecWep == InitWep /\ [][NextWep]_vars

\* __readConfigFile called on any configuration file
ReadConfig ==
    /\ cfgOut = None
    /\ cfgOut' = PyList(ReadConfigFile(<<>>, cfgFile, "algorithm"))
    /\ UNCHANGED <<wepPc, wepAlgo, wepResult, cfgFile>>
    /\ UNCHANGED <<donutVars, targetVars, ctlVars, dbVars, mwVars, fitsVars>>

InitConfig ==
    /\ cfgFile \in SeqsUpTo(ConfigLines, MaxLines)
    /\ cfgOut = None
    /\ wepPc = "idle" /\ wepAlgo = None /\ wepResult = None
    /\ IdleDonut /\ IdleTarget /\ IdleCtl /\ IdleDb /\ IdleMw /\ IdleFits

NextConfig == ReadConfig

SpecConfig == InitConfig /\ [][NextConfig]_vars

----------------------------------------------------------------------------
\* MockMiddleware: the two class-level stores shared by all instances.

\* largest number of MockMiddleware calls in a run
MaxMwCalls == 3

\* the instances of the unit test: self.wepSalIssue and self.wepSalGet
MwInstances == {"wepSalIssue", "wepSalGet"}

\* topic names
MwTopics == {"summaryState", "timestamp"}

\* the data issued for a topic (a dict holding one value)
MwData == {[value |-> 1], [value |-> 2]}

\* store[topic] = newData
StorePut(store, topic, newData) == (topic :> newData) @@ store

\* store[topic]: the data, or KeyError for a topic never issued
StoreGet(store, topic) ==
    IF topic \in DOMAIN store THEN [kind |-> "data", data |-> store[topic]]
    ELSE [kind |-> "KeyError"]

\* an issueEvent that writes one dict shared by events and telemetry (mutant)
IssueEventShared(events, telemetry, topic, newData) ==
    [events |-> StorePut(events, topic, newData),
     telemetry |-> StorePut(telemetry, topic, newData)]

\* MockMiddleware.issueEvent: the stores after the call
IssueEvent(events, telemetry, topic, newData) ==
    [events |-> StorePut(events, topic, newData), telemetry |-> telemetry]

\* MockMiddleware.issueTelemetry: the stores after the call
IssueTelemetry(events, telemetry, topic, newData) ==
    [events |-> events, telemetry |-> StorePut(telemetry, topic, newData)]

\* a call (op, instance, topic, data) is recorded with what it returned
MwCalled(op, inst, topic, data, ret) ==
    /\ Len(mwLog) < MaxMwCalls
    /\ mwLog' = Append(mwLog, [op |-> op, inst |-> inst, topic |-> topic, data |-> data])
    /\ mwLast' = [op |-> op, inst |-> inst, topic |-> topic, ret |-> ret]
    /\ UNCHANGED <<donutVars, targetVars, ctlVars, dbVars, wepVars, fitsVars>>

MwIssueEvent ==
    \E inst \in MwInstances, topic \in MwTopics, newData \in MwData :
        LET r == IssueEvent(eventStore, telemetryStore, topic, newData) IN
        /\ eventStore' = r.events
        /\ telemetryStore' = r.telemetry
        /\ MwCalled("issueEvent", inst, Str(topic), newData, None)

MwIssueTelemetry ==
    \E inst \in MwInstances, topic \in MwTopics, newData \in MwData :
        LET r == IssueTelemetry(eventStore, telemetryStore, topic, newData) IN
        /\ eventStore' = r.events
        /\ telemetryStore' = r.telemetry
        /\ MwCalled("issueTelemetry", inst, Str(topic), newData, None)

MwGetEvent ==
    \E inst \in MwInstances, topic \in MwTopics :
        /\ UNCHANGED <<eventStore, telemetryStore>>
        /\ MwCalled("getEvent", inst, Str(topic), None, StoreGet(eventStore, topic))

MwGetTelemetry ==
    \E inst \in MwInstances, topic \in MwTopics :
        /\ UNCHANGED <<eventStore, telemetryStore>>
        /\ MwCalled("getTelemetry", inst, Str(topic), None,
                    StoreGet(telemetryStore, topic))

MwResetTopic ==
    \E inst \in MwInstances :
        /\ UNCHANGED <<eventStore, telemetryStore>>
        /\ MwCalled("resetTopic", inst, None, None, None)

MwSetTimeOut ==
    \E inst \in MwInstances :
        /\ UNCHANGED <<eventStore, telemetryStore>>
        /\ MwCalled("setTimeOut", inst, None, None, None)

MwShutDownSal ==
    \E inst \in MwInstances :
        /\ UNCHANGED <<eventStore, telemetryStore>>
        /\ MwCalled("shutDownSal", inst, None, None, None)

InitMw ==
    /\ IdleMw
    /\ IdleDonut /\ IdleTarget /\ IdleCtl /\ IdleDb /\ IdleWep /\ IdleFits

NextMw ==
    \/ MwIssueEvent \/ MwIssueTelemetry \/ MwGetEvent \/ MwGetTelemetry
    \/ MwResetTopic \/ MwSetTimeOut \/ MwShutDownSal

SpecMw == InitMw /\ [][NextMw]_vars

----------------------------------------------------------------------------
\* FitsFormat.config and FitsFormat.writeNewFits, over a file system.

\* largest number of writeNewFits calls in a run
MaxWrites == 3

\* the directory that exists, and one that does not
TestDir == "test"
MissingDir == "missing"

\* FITS file names
FitsNames == {"temp.fits", "other.fits"}

\* FITS data arrays
FitsData == {1, 2}

\* os.path.join(fitsDir, fitsFileName)
PathJoin(dir, fileName) == [dir |-> dir, name |-> fileName]

\* hdul.writeto(fitsFilePath) with overwrite left False: OSError when the file
\* exists, FileNotFoundError when the directory does not, else the file is
\* created with the data
WriteTo(files, dirs, path, data) ==
    IF path \in DOMAIN files THEN [files |-> files, raised |-> "OSError"]
    ELSE IF path.dir \notin dirs THEN [files |-> files, raised |-> "FileNotFoundError"]
    ELSE [files |-> (path :> data) @@ files, raised |-> "no"]

\* FitsFormat.writeNewFits(data, fitsFileName) on an object whose fitsDir is
\* dir: joining a fitsDir of None raises TypeError; any exception of writeto is
\* caught and None returned
WriteNewFits(files, dirs, dir, data, fitsFileName) ==
    IF dir = None THEN [files |-> files, pc |-> "TypeError", ret |-> None]
    ELSE LET fitsFilePath == PathJoin(dir.chars, fitsFileName)
             w == WriteTo(files, dirs, fitsFilePath, data)
         IN [files |-> w.files, pc |-> "returned",
             ret |-> IF w.raised = "no" THEN Str(fitsFilePath) ELSE None]

\* number of writeNewFits calls made so far
FitsCalls == IF fitsArg = None THEN 0 ELSE fitsArg.calls

\* fitsFormat.config(fitsDir=...)
FitsConfig ==
    /\ FitsCalls < MaxWrites
    /\ \E dir \in {TestDir, MissingDir} :
        /\ fitsDir # Str(dir)
        /\ fitsDir' = Str(dir)
    /\ fitsArg' = [op |-> "config", calls |-> FitsCalls]
    /\ UNCHANGED <<fsFiles, fsDirs, fitsRet>>
    /\ UNCHANGED <<donutVars, targetVars, ctlVars, dbVars, wepVars, mwVars>>

\* fitsFormat.writeNewFits(data, fitsFileName)
FitsWriteNewFits ==
    /\ FitsCalls < MaxWrites
    /\ \E data \in FitsData, fitsFileName \in FitsNames :
        LET r == WriteNewFits(fsFiles, fsDirs, fitsDir, data, fitsFileName) IN
        /\ fsFiles' = r.files
        /\ fitsRet' = r.ret
        /\ fitsArg' = [op |-> "writeNewFits", data |-> data, fitsFileName |-> fitsFileName,
                       pc |-> r.pc, files |-> fsFiles,
                       calls |-> FitsCalls + 1]
    /\ UNCHANGED <<fsDirs, fitsDir>>
    /\ UNCHANGED <<donutVars, targetVars, ctlVars, dbVars, wepVars, mwVars>>

\* a FitsFormat object just constructed; the directory test exists and may
\* already hold temp.fits
InitFits ==
    /\ fsDirs = {TestDir}
    /\ fsFiles \in {EmptyMap, PathJoin(TestDir, "temp.fits") :> 0}
    /\ fitsDir = None
    /\ fitsArg = None
    /\ fitsRet = None
    /\ IdleDonut /\ IdleTarget /\ IdleCtl /\ IdleDb /\ IdleWep /\ IdleMw

NextFits == FitsConfig \/ FitsWriteNewFits

SpecFits == InitFits /\ [][NextFits]_vars

----------------------------------------------------------------------------
\* LocalDatabase.insertData and getAllId.

\* simobjids of the stars of the unit test
StarIds == {123, 456, 789}

\* (ra, decl) of a star, in units of 1e-7 degree: with six decimals, or with a
\* seventh decimal when the star is in fine
RaDeclOf(id, fine) ==
    LET n == CASE id = 123 -> 1 [] id = 456 -> 2 [] OTHER -> 3
    IN <<10 * n + (IF id \in fine THEN 3 ELSE 0), 200 + 10 * n>>

\* A NeighboringStar object as insertData reads it: SimobjID maps each bright
\* star (keys, in dict order) to the list of its neighbors; RaDecl and
\* LSSTMagG map every star to its position and magnitude.
NeighboringStar(keys, nbrs, fine) ==
    [keys |-> keys,
     SimobjID |-> [b \in Range(keys) |-> nbrs[b]],
     RaDecl |-> [id \in StarIds |-> RaDeclOf(id, fine)],
     LSSTMagG |-> [id \in StarIds |-> 2]]

\* x in list
InList(x, list) == \E k \in 1..Len(list) : list[k] = x

\* insertData, the first loop from index ii on: the bright stars that
\* searchRaDecl finds in the table
RECURSIVE ExistIdList(_, _, _, _, _)
ExistIdList(rows, cameraFilter, starMap, ii, existIdList) ==
    IF ii > Len(starMap.keys) THEN existIdList
    ELSE LET raDec == starMap.RaDecl[starMap.keys[ii]]
         IN ExistIdList(rows, cameraFilter, starMap, ii + 1,
                        IF Len(SearchRaDecl(rows, cameraFilter, raDec[1], raDec[2])) > 0
                        THEN Append(existIdList, starMap.keys[ii])
                        ELSE existIdList)

\* insertData, the inner loop over the neighbors of a bright star from index
\* jj on: a neighbor is appended unless allStarList holds it already
RECURSIVE AddNeighbors(_, _, _)
AddNeighbors(nbrList, jj, allStarList) ==
    IF jj > Len(nbrList) THEN allStarList
    ELSE AddNeighbors(nbrList, jj + 1,
                      IF InList(nbrList[jj], allStarList) THEN allStarList
                      ELSE Append(allStarList, nbrList[jj]))

\* insertData, the second loop from index ii on: the bright stars not in the
\* table (remainIdList) and the stars to insert (allStarList)
RECURSIVE CollectStars(_, _, _, _, _)
CollectStars(starMap, existIdList, ii, remainIdList, allStarList) ==
    IF ii > Len(starMap.keys)
    THEN [remainIdList |-> remainIdList, allStarList |-> allStarList]
    ELSE LET id == starMap.keys[ii]
         IN IF InList(id, existIdList)
            THEN CollectStars(starMap, existIdList, ii + 1, remainIdList, allStarList)
            ELSE CollectStars(starMap, existIdList, ii + 1, Append(remainIdList, id),
                              AddNeighbors(starMap.SimobjID[id], 1, Append(allStarList, id)))

\* the id SQLite gives a new row: one more than the largest id of the table
RECURSIVE MaxRowId(_)
MaxRowId(rows) ==
    IF Len(rows) = 0 THEN 0
    ELSE LET m == MaxRowId(Tail(rows)) IN IF rows[1].id > m THEN rows[1].id ELSE m

\* INSERT INTO ... (simobjid, ra, decl, gmag, bright_star) VALUES (...)
SqlInsert(rows, simobjID, ra, decl, mag, brightStar) ==
    Append(rows, [id |-> MaxRowId(rows) + 1, simobjid |-> simobjID, ra |-> ra,
                  decl |-> decl, gmag |-> mag, bright_star |-> IF brightStar THEN 1 ELSE 0])

\* insertData, the third loop from index ii on: one INSERT per star of
\* allStarList
RECURSIVE InsertLoop(_, _, _, _, _)
InsertLoop(rows, starMap, remainIdList, allStarList, ii) ==
    IF ii > Len(allStarList) THEN rows
    ELSE LET simobjID == allStarList[ii]
             raDec == starMap.RaDecl[simobjID]
         IN InsertLoop(SqlInsert(rows, simobjID, raDec[1], raDec[2],
                                 starMap.LSSTMagG[simobjID],
                                 InList(simobjID, remainIdList)),
                       starMap, remainIdList, allStarList, ii + 1)

\* LocalDatabase.insertData(cameraFilter, neighborStarMap), then the commit
InsertData(rows, committed, cameraFilter, starMap) ==
    LET existIdList == ExistIdList(rows, cameraFilter, starMap, 1, <<>>)
        c == CollectStars(starMap, existIdList, 1, <<>>, <<>>)
        r == InsertLoop(rows, starMap, c.remainIdList, c.allStarList, 1)
    IN [rows |-> r, committed |-> r, pc |-> "inserted"]

\* LocalDatabase.getAllId: np.asarray(listID).squeeze().tolist() is a list of
\* ids, but the bare id when the table holds exactly one row
GetAllId(rows, cameraFilter) ==
    IF Len(rows) = 1 THEN [kind |-> "int", value |-> rows[1].id]
    ELSE PyList([k \in 1..Len(rows) |-> rows[k].id])

\* insertData(cameraFilter, neighborStarMap) on the connection, followed by
\* getAllId(cameraFilter)
DbInsertData ==
    /\ dbPc = "idle"
    /\ \E keys \in DistinctSeqs({123, 789}, 2), fine \in SUBSET {123, 789} :
       \E nbrs \in [Range(keys) -> DistinctSeqs(StarIds, MaxNbr)] :
        /\ keys # <<>>
        /\ \A b \in Range(keys) : ~InList(b, nbrs[b])
        /\ LET starMap == NeighboringStar(keys, nbrs, fine)
               r == InsertData(dbRows, dbCommitted, CameraFilter, starMap)
           IN /\ dbArg' = [op |-> "insertData", neighborStarMap |-> starMap,
                           rows |-> dbRows, committed |-> dbCommitted,
                           numId |-> GetAllId(r.rows, CameraFilter)]
              /\ dbRows' = r.rows
              /\ dbCommitted' = r.committed
              /\ dbPc' = r.pc
    /\ UNCHANGED <<donutVars, targetVars, ctlVars, auxVars>>

\* insertData called again with the same map, followed by getAllId
DbInsertDataAgain ==
    /\ dbPc = "inserted"
    /\ LET r == InsertData(dbRows, dbCommitted, CameraFilter, dbArg.neighborStarMap)
       IN /\ dbArg' = [dbArg EXCEPT !.rows = dbRows, !.committed = dbCommitted]
          /\ dbRows' = r.rows
          /\ dbCommitted' = r.committed
          /\ dbPc' = "insertedAgain"
    /\ UNCHANGED <<donutVars, targetVars, ctlVars, auxVars>>

\* the table is empty, or holds the stars 123 and 456, committed or with an
\* update pending
InitInsert ==
    /\ dbCommitted \in {<<>>, BaseTable}
    /\ dbRows \in {dbCommitted} \cup
                  (IF dbCommitted = <<>> THEN {} ELSE {SqlUpdate(BaseTable, "ra", 9, 1)})
    /\ dbPc = "idle"
    /\ dbArg = None
    /\ IdleDonut /\ IdleTarget /\ IdleCtl /\ IdleAux

NextInsert == DbInsertData \/ DbInsertDataAgain

SpecInsert == InitInsert /\ [][NextInsert]_vars

----------------------------------------------------------------------------
\* A session on one connection: updateData, then, when it stopped with
\* IndexError, one more call of updateData, deleteData or insertData. The
\* record of the later call keeps the record of the failed one.

\* the last call was an updateData that stopped with IndexError
UpdateFailedPartway ==
    /\ dbPc = "IndexError"
    /\ dbArg.op = "updateData"
    /\ "failed" \notin DOMAIN dbArg

\* updateData called after the failed updateData
DbUpdateDataLater ==
    /\ UpdateFailedPartway
    /\ \E listID \in SeqsUpTo({1, 2, 3}, MaxUpd),
          listOfItemToChange \in SeqsUpTo({"ra", "mag", "id"}, MaxUpd),
          listOfNewValue \in SeqsUpTo(NewValues, MaxUpd) :
        LET r == UpdateData(dbRows, dbCommitted, CameraFilter, listID, listOfItemToChange,
                            listOfNewValue)
        IN /\ dbArg' = [op |-> "updateData", listID |-> listID,
                        listOfItemToChange |-> listOfItemToChange,
                        listOfNewValue |-> listOfNewValue,
                        rows |-> dbRows, committed |-> dbCommitted, failed |-> dbArg]
           /\ dbRows' = r.rows
           /\ dbCommitted' = r.committed
           /\ dbPc' = r.pc
    /\ UNCHANGED <<donutVars, targetVars, ctlVars, auxVars>>

\* deleteData called after the failed updateData
DbDeleteDataLater ==
    /\ UpdateFailedPartway
    /\ \E listID \in SeqsUpTo({1, 2, 3}, MaxUpd) :
        LET r == DeleteData(dbRows, dbCommitted, CameraFilter, listID)
        IN /\ dbArg' = [op |-> "deleteData", listID |-> listID,
                        rows |-> dbRows, committed |-> dbCommitted, failed |-> dbArg]
           /\ dbRows' = r.rows
           /\ dbCommitted' = r.committed
           /\ dbPc' = r.pc
    /\ UNCHANGED <<donutVars, targetVars, ctlVars, auxVars>>

\* insertData called after the failed updateData
DbInsertDataLater ==
    /\ UpdateFailedPartway
    /\ \E keys \in DistinctSeqs({123, 789}, 2) :
       \E nbrs \in [Range(keys) -> DistinctSeqs(StarIds, MaxNbr)] :
        /\ keys # <<>>
        /\ \A b \in Range(keys) : ~InList(b, nbrs[b])
        /\ LET starMap == NeighboringStar(keys, nbrs, {})
               r == InsertData(dbRows, dbCommitted, CameraFilter, starMap)
           IN /\ dbArg' = [op |-> "insertData", neighborStarMap |-> starMap,
                           rows |-> dbRows, committed |-> dbCommitted, failed |-> dbArg]
              /\ dbRows' = r.rows
              /\ dbCommitted' = r.committed
              /\ dbPc' = r.pc
    /\ UNCHANGED <<donutVars, targetVars, ctlVars, auxVars>>

\* the connection is new: the table holds its two rows, all committed
InitSession ==
    /\ dbCommitted = BaseTable
    /\ dbRows = BaseTable
    /\ dbPc = "idle"
    /\ dbArg = None
    /\ IdleDonut /\ IdleTarget /\ IdleCtl /\ IdleAux

NextSession == DbUpdateData \/ DbUpdateDataLater \/ DbDeleteDataLater \/ DbInsertDataLater

SpecSession == InitSession /\ [][NextSession]_vars

----------------------------------------------------------------------------
\* Properties of getDonutMap.

\* the image of focal role jj (0 intra, 1 extra) of a DefocalImage or DonutImage
RoleImg(obj, jj) == IF jj = 0 THEN obj.intraImg ELSE obj.extraImg

\* the detectors getDonutMap can process and their candidate positions
DonutCases ==
    {<<d, ii, jj>> \in Range(wfsImgMap.keys) \X (1..MaxCand) \X {0, 1} :
        /\ d \in DOMAIN neighborStarMap
        /\ ii <= Len(neighborStarMap[d].keys)}

\* the donut entries of star id on detector d
DonutsOf(d, id) ==
    IF d \in DOMAIN donutMap
    THEN {k \in 1..Len(donutMap[d]) : donutMap[d][k].starId = id}
    ELSE {}

\* candidate ii of detector d has its raw cutout of role jj stored, centered on
\* its nominal position
RawStored(d, ii, jj) ==
    LET entry == neighborStarMap[d]
        res == GetSingleTargetImage(RoleImg(wfsImgMap.img[d], jj), entry, ii)
    IN \E k \in DonutsOf(d, entry.keys[ii]) :
        /\ RoleImg(donutMap[d][k], jj) = res.img
        /\ donutMap[d][k].pixelX = res.allStarPosX[1] + res.offsetX
        /\ donutMap[d][k].pixelY = res.allStarPosY[1] + res.offsetY

\* number of stars in the cutout of candidate ii of detector d
NumStars(d, ii) == 1 + Len(neighborStarMap[d].SimobjID[neighborStarMap[d].keys[ii]])

\* C1 as stated: when getDonutMap has returned, every candidate and focal role
\* whose detector image is present has its raw cutout stored unchanged, with
\* the nominal center, whenever deblending is disabled or the cutout holds more
\* than two stars.
C1_RawWhenDisabledOrCrowded ==
    pc.at = "done" =>
        \A c \in DonutCases :
            (/\ RoleImg(wfsImgMap.img[c[1]], c[3]) # None
             /\ (~doDeblending \/ NumStars(c[1], c[2]) > 2))
            => RawStored(c[1], c[2], c[3])

\* C1 amended: the raw cutout is stored unchanged with the nominal center
\* whenever deblending is disabled, or is enabled and the candidate is alone in
\* its cutout; with deblending enabled and more than two stars in the cutout
\* nothing is stored for the candidate.
C1_RawWhenDisabledOrAlone ==
    pc.at = "done" =>
        \A c \in DonutCases :
            /\ (/\ RoleImg(wfsImgMap.img[c[1]], c[3]) # None
                /\ (~doDeblending \/ NumStars(c[1], c[2]) = 1))
               => RawStored(c[1], c[2], c[3])
            /\ (doDeblending /\ NumStars(c[1], c[2]) > 2)
               => DonutsOf(c[1], neighborStarMap[c[1]].keys[c[2]]) = {}

\* C1 witness: deblending disabled, a candidate with two neighbors, image
\* present, raw cutout stored.
C1_Witness ==
    /\ pc.at = "done"
    /\ ~doDeblending
    /\ \E c \in DonutCases :
        /\ NumStars(c[1], c[2]) = 3
        /\ RoleImg(wfsImgMap.img[c[1]], c[3]) # None
        /\ RawStored(c[1], c[2], c[3])

\* C2: in every state each detector's donut list holds at most one DonutImage
\* per star id, the images of an entry are cutouts of that star in the matching
\* focal role, and once getDonutMap has returned every candidate with a stored
\* role has exactly one entry holding all its stored roles, whatever the pixel
\* positions.
C2_OneDonutPerStarId ==
    /\ \A d \in DOMAIN donutMap :
        /\ \A k, m \in 1..Len(donutMap[d]) :
            k # m => donutMap[d][k].starId # donutMap[d][m].starId
        /\ \A k \in 1..Len(donutMap[d]) : \A jj \in {0, 1} :
            RoleImg(donutMap[d][k], jj) # None =>
                /\ RoleImg(donutMap[d][k], jj).star = donutMap[d][k].starId
                /\ RoleImg(donutMap[d][k], jj).src = RoleImg(wfsImgMap.img[d], jj)
    /\ pc.at = "done" =>
        \A c \in DonutCases :
            LET id == neighborStarMap[c[1]].keys[c[2]]
                stored == /\ RoleImg(wfsImgMap.img[c[1]], c[3]) # None
                          /\ (~doDeblending \/ NumStars(c[1], c[2]) <= 2)
            IN stored =>
                /\ Cardinality(DonutsOf(c[1], id)) = 1
                /\ \A k \in DonutsOf(c[1], id) : RoleImg(donutMap[c[1]][k], c[3]) # None

\* C2 witness: two candidates on the same pixel have two complete entries, and
\* one of them was deblended to different centers in its two roles.
C2_Witness ==
    /\ pc.at = "done"
    /\ \E d \in DOMAIN donutMap :
        /\ Len(donutMap[d]) = 2
        /\ donutMap[d][1].pixelX = donutMap[d][2].pixelX
        /\ donutMap[d][1].pixelY = donutMap[d][2].pixelY
        /\ \A k \in 1..2 : donutMap[d][k].intraImg # None /\ donutMap[d][k].extraImg # None
        /\ \E a, b \in 1..Len(deblendCalls) :
            /\ deblendCalls[a].sensor = d /\ deblendCalls[b].sensor = d
            /\ deblendCalls[a].starId = deblendCalls[b].starId
            /\ deblendCalls[a].realcx # deblendCalls[b].realcx

C7_DonutMapNeverRaises == pc.at # "raised"

----------------------------------------------------------------------------
\* Properties of getTargetStarByFile and __analyzeStarMap.

\* C4: every detector left in the neighbor-star map that getTargetStarByFile
\* returns has a non-empty bright-candidate list.
C4_KeptDetectorsHaveCandidates ==
    tsPc \in {"deleteTable", "disconnect", "done"} =>
        \A d \in DOMAIN tsMaps.nbr : Len(tsMaps.nbr[d].keys) > 0

C6_NonLocalDbRaisesFirst ==
    sourSelc.name # LocalDb => (dbCalls = <<>> /\ tsPc \in {"check", "raised"})

\* C6 witness: the operation has raised for a remote database.
C6_Witness == sourSelc.name # LocalDb /\ tsPc = "raised" /\ dbCalls = <<>>

----------------------------------------------------------------------------
\* Properties of __getSensorInfo, doISR and getPostISRDefocalImgMap.

\* a name in canonical form: "R:d,d S:d,d", optionally followed by ",A" or ",B"
IsCanonical(sensorName) ==
    \E r0, r1, s0, s1 \in Digits :
        \/ sensorName = CanonicalName(r0, r1, s0, s1)
        \/ \E ch \in {"A", "B"} : sensorName = CanonicalName(r0, r1, s0, s1) \o <<",", ch>>

\* C8: a controller operation never proceeds with a sensor name that
\* __getSensorInfo rejects: doISR raises without calling the ISR wrapper, and
\* getPostISRDefocalImgMap neither requests an image with a None raft or sensor
\* nor stores an image under such a name.
C8_RejectedNameFailsFast ==
    /\ (ctlPc # "idle" /\ ctlArg.op = "doISR" /\ GetSensorInfo(ctlArg.sensorName).raft = None)
        => (ctlPc = "raised" /\ isrCalls = <<>>)
    /\ \A i \in 1..Len(butlerGets) :
        butlerGets[i].raft # None /\ butlerGets[i].sensor # None
    /\ \A d \in DOMAIN imgMapOut : GetSensorInfo(d).raft # None

\* C10: __getSensorInfo returns a raft and a sensor exactly for the canonical
\* names, and the channel it returns is None, "A" or "B".
C10_AcceptsExactlyCanonical ==
    (ctlPc # "idle" /\ ctlArg.op = "doISR") =>
        /\ (ctlArg.info.raft # None /\ ctlArg.info.sensor # None)
            <=> IsCanonical(ctlArg.sensorName)
        /\ ctlArg.info.channel \in {None, Str(<<"A">>), Str(<<"B">>)}

----------------------------------------------------------------------------
\* Properties of LocalDatabase.

\* C9: updateData called with an item outside (simobjid, ra, decl, mag,
\* bright_star) anywhere in listOfItemToChange raises ValueError and leaves the
\* table, pending and committed, exactly as it was before the call.
C9_UnknownItemChangesNothing ==
    (/\ dbPc # "idle"
     /\ dbArg.op = "updateData"
     /\ \E k \in 1..Len(dbArg.listOfItemToChange) :
            dbArg.listOfItemToChange[k]
                \notin {"simobjid", "ra", "decl", "mag", "bright_star"})
    => /\ dbPc = "ValueError"
       /\ dbRows = dbArg.rows
       /\ dbCommitted = dbArg.committed

\* C9 witness: the unknown item came second, after an updatable item whose
\* row exists, and the call raised ValueError.
C9_Witness ==
    /\ dbPc = "ValueError"
    /\ dbArg.op = "updateData"
    /\ Len(dbArg.listOfItemToChange) = 2
    /\ dbArg.listOfItemToChange[1] = "ra"
    /\ dbArg.listOfItemToChange[2] = "id"
    /\ Len(dbArg.listID) = 2 /\ dbArg.listID[1] = 1
    /\ Len(dbArg.listOfNewValue) = 2

\* ---- getDonutMap: incomplete pairs and deblender calls ----

\* detector d has exactly one of its two images, the one of role jj
OnlyRole(d, jj) ==
    /\ RoleImg(wfsImgMap.img[d], jj) # None
    /\ RoleImg(wfsImgMap.img[d], 1 - jj) = None

\* the cutout of candidate ii of detector d yields an image: deblending is off,
\* or the cutout holds at most two stars
Extractable(d, ii) == ~doDeblending \/ NumStars(d, ii) <= 2

\* C11: when getDonutMap has returned, every extractable candidate of a
\* detector that has only one of its intra/extra images has exactly one donut
\* entry, with the available role filled by a cutout of that image and the
\* other role empty; and no step of getDonutMap removes a donut entry or
\* empties a role of one.
C11_IncompletePairsRetained ==
    /\ [](pc.at = "done" =>
            \A c \in DonutCases :
                (OnlyRole(c[1], c[3]) /\ Extractable(c[1], c[2])) =>
                    /\ Cardinality(DonutsOf(c[1], neighborStarMap[c[1]].keys[c[2]])) = 1
                    /\ \A k \in DonutsOf(c[1], neighborStarMap[c[1]].keys[c[2]]) :
                        /\ RoleImg(donutMap[c[1]][k], c[3]) # None
                        /\ RoleImg(donutMap[c[1]][k], c[3]).src
                               = RoleImg(wfsImgMap.img[c[1]], c[3])
                        /\ RoleImg(donutMap[c[1]][k], 1 - c[3]) = None)
    /\ [][\A d \in DOMAIN donutMap :
            /\ d \in DOMAIN donutMap'
            /\ Len(donutMap'[d]) >= Len(donutMap[d])
            /\ \A k \in 1..Len(donutMap[d]) :
                /\ donutMap'[d][k].starId = donutMap[d][k].starId
                /\ \A jj \in {0, 1} :
                    RoleImg(donutMap[d][k], jj) # None
                        => RoleImg(donutMap'[d][k], jj) # None]_vars

\* C11 witness: getDonutMap has returned, a detector has only its extra image
\* and one of its candidates has an entry with the extra role filled and the
\* intra role empty.
C11_Witness ==
    /\ pc.at = "done"
    /\ \E c \in DonutCases :
        /\ c[3] = 1
        /\ OnlyRole(c[1], 1)
        /\ \E k \in DonutsOf(c[1], neighborStarMap[c[1]].keys[c[2]]) :
            /\ donutMap[c[1]][k].extraImg # None
            /\ donutMap[c[1]][k].intraImg = None

\* C20: every call made to the deblender was made for a cutout holding exactly
\* two stars with doDeblending true.
C20_DeblenderOnlyForPairs ==
    \A i \in 1..Len(deblendCalls) :
        deblendCalls[i].nStar = 2 /\ deblendCalls[i].doDeblending

\* C20 witness: getDonutMap has returned after calling the deblender for both
\* focal roles of a blended pair.
C20_Witness ==
    /\ pc.at = "done"
    /\ \E i, j \in 1..Len(deblendCalls) :
        /\ deblendCalls[i].jj = 0 /\ deblendCalls[j].jj = 1
        /\ deblendCalls[i].starId = deblendCalls[j].starId
        /\ deblendCalls[i].sensor = deblendCalls[j].sensor
        /\ deblendCalls[i].nStar = 2

\* ---- getDonutMap run as concurrent per-detector tasks ----

\* C12: at every extraction the shared source processor is configured for the
\* detector whose cutout is extracted.
C12_ExtractionUsesOwnConfig ==
    \A i \in 1..Len(extractions) :
        extractions[i].configured = Str(AbbrevDetectorName(extractions[i].sensor))

\* ---- runWEP and __readConfigFile ----

\* C13: a run of runWEP that hit the iteration cap without converging returns
\* a value that differs from the one a converged run with the same
\* coefficients returns.
C13_NonConvergedIsMarked ==
    (wepPc = "returned" /\ ~wepAlgo.converged)
        => wepResult # ReturnValue([wepAlgo EXCEPT !.converged = TRUE])

\* the lines of the file, stripped
StrippedLines == [i \in 1..Len(cfgFile) |-> Strip(cfgFile[i])]

\* number of lines up to line i that start with "###"
RECURSIVE Delimiters(_)
Delimiters(i) ==
    IF i = 0 THEN 0
    ELSE (IF StartsWith(StrippedLines[i], <<"#", "#", "#">>) THEN 1 ELSE 0)
         + Delimiters(i - 1)

\* line i holds a configuration pair: non-empty after stripping, not a comment,
\* and outside every block (an even number of delimiters precede it)
HoldsPair(i) ==
    /\ Len(StrippedLines[i]) > 0
    /\ ~StartsWith(StrippedLines[i], <<"#">>)
    /\ Delimiters(i) % 2 = 0

\* the lines holding a configuration pair, in order, from line i on
RECURSIVE PairLines(_)
PairLines(i) ==
    IF i > Len(cfgFile) THEN <<>>
    ELSE (IF HoldsPair(i)
          THEN <<[kind |-> "line", chars |-> StrippedLines[i] \o <<"\n">>]>>
          ELSE <<>>) \o PairLines(i + 1)

\* C18: what __readConfigFile writes after its two heading lines is exactly
\* the sequence of the stripped lines that are non-empty, do not start with
\* "#" and lie outside every "###"-delimited block, each "###" line toggling
\* the block state.
C18_EmitsExactlyPairLines ==
    cfgOut # None =>
        SubSeq(cfgOut.items, 3, Len(cfgOut.items)) = PairLines(1)

\* C18 witness: a file of five lines has been read in which the first two
\* lines open and close a block, the third holds a pair, the fourth opens a
\* block again and the fifth would hold a pair: only the third is written.
C18_Witness ==
    /\ cfgOut # None
    /\ Len(cfgFile) = 5
    /\ Delimiters(1) = 1 /\ Delimiters(2) = 2 /\ HoldsPair(3)
    /\ Delimiters(4) = 3
    /\ Len(StrippedLines[5]) > 0 /\ ~StartsWith(StrippedLines[5], <<"#">>)
    /\ cfgOut.items[3].chars = StrippedLines[3] \o <<"\n">>
    /\ Len(cfgOut.items) = 3

\* ---- MockMiddleware ----

\* the calls of operation op on the topic, by their position in mwLog
IssuesOf(op, topic) ==
    {i \in 1..Len(mwLog) : mwLog[i].op = op /\ mwLog[i].topic = topic}

\* what a get of the topic must return, given the issues of kind op made so
\* far by any instance: the data of the latest one
LatestIssued(op, topic) ==
    IF IssuesOf(op, topic) = {} THEN [kind |-> "KeyError"]
    ELSE LET last == CHOOSE i \in IssuesOf(op, topic) :
                         \A j \in IssuesOf(op, topic) : j <= i
         IN [kind |-> "data", data |-> mwLog[last].data]

\* C17: a getEvent (getTelemetry) by any instance returns the data of the
\* latest issueEvent (issueTelemetry) made for the topic by any instance; an
\* issueEvent leaves the telemetry store unchanged, an issueTelemetry leaves
\* the event store unchanged, and resetTopic, setTimeOut and shutDownSal leave
\* both unchanged.
C17_StoresHoldLatestIssue ==
    /\ []((mwLast # None /\ mwLast.op = "getEvent")
            => mwLast.ret = LatestIssued("issueEvent", mwLast.topic))
    /\ []((mwLast # None /\ mwLast.op = "getTelemetry")
            => mwLast.ret = LatestIssued("issueTelemetry", mwLast.topic))
    /\ [][/\ mwLast'.op = "issueEvent" => telemetryStore' = telemetryStore
          /\ mwLast'.op = "issueTelemetry" => eventStore' = eventStore
          /\ mwLast'.op \in {"resetTopic", "setTimeOut", "shutDownSal"}
                => (eventStore' = eventStore /\ telemetryStore' = telemetryStore)]_vars

\* C17 witness: one instance issued an event twice for a topic with different
\* data and the other instance then got the event: it received the second.
C17_Witness ==
    /\ Len(mwLog) = 3
    /\ mwLog[1].op = "issueEvent" /\ mwLog[2].op = "issueEvent"
    /\ mwLog[1].topic = mwLog[2].topic /\ mwLog[1].data # mwLog[2].data
    /\ mwLog[1].inst = "wepSalIssue" /\ mwLog[2].inst = "wepSalIssue"
    /\ mwLast.op = "getEvent" /\ mwLast.inst = "wepSalGet"
    /\ mwLast.topic = mwLog[2].topic
    /\ mwLast.ret = [kind |-> "data", data |-> mwLog[2].data]

\* ---- FitsFormat.writeNewFits ----

\* the path fitsDir/fitsFileName of the last writeNewFits call
LastFitsPath == PathJoin(fitsDir.chars, fitsArg.fitsFileName)

\* C19: after a call of writeNewFits, if a file already existed at
\* fitsDir/fitsFileName the call returned None and the file's content is
\* unchanged; otherwise the file exists with the data and the call returned
\* its path.
C19_NeverOverwritesElseCreates ==
    (fitsArg # None /\ fitsArg.op = "writeNewFits" /\ fitsDir # None) =>
        /\ fitsArg.pc = "returned"
        /\ IF LastFitsPath \in DOMAIN fitsArg.files
           THEN /\ fitsRet = None
                /\ LastFitsPath \in DOMAIN fsFiles
                /\ fsFiles[LastFitsPath] = fitsArg.files[LastFitsPath]
           ELSE /\ fitsRet = Str(LastFitsPath)
                /\ LastFitsPath \in DOMAIN fsFiles
                /\ fsFiles[LastFitsPath] = fitsArg.data

\* ---- LocalDatabase.updateData and deleteData: effect and frame ----

\* the column an item names: "mag" is the magnitude column of the filter
ColumnOf(item) == IF item = "mag" THEN MagColumn(CameraFilter) ELSE item

\* the columns of the table besides id
DataColumns == {"simobjid", "ra", "decl", "gmag", "bright_star"}

\* the indices of the call that set the column col of the row whose id is anId
Targets(anId, col) ==
    {i \in 1..Len(dbArg.listID) :
        dbArg.listID[i] = anId /\ ColumnOf(dbArg.listOfItemToChange[i]) = col}

\* updateData has returned
UpdateReturned == dbPc = "returned" /\ dbArg.op = "updateData"

\* the rows are those before the call, except for the columns the call set
UpdateFrame ==
    /\ Len(dbRows) = Len(dbArg.rows)
    /\ \A k \in 1..Len(dbRows) :
        /\ dbRows[k].id = dbArg.rows[k].id
        /\ \A col \in DataColumns :
            Targets(dbRows[k].id, col) = {} => dbRows[k][col] = dbArg.rows[k][col]

\* C15 as stated: after updateData has returned, for every index i the row
\* whose id is listID[i] holds values[i] in the column items[i] names; when the
\* item is ra, searchRaDecl with the row's old ra no longer finds the row and
\* with the new ra finds it; every other row and column is unchanged.
C15_EveryIndexTakesEffect ==
    UpdateReturned =>
        /\ UpdateFrame
        /\ \A i \in 1..Len(dbArg.listID) : \A k \in 1..Len(dbRows) :
            dbRows[k].id = dbArg.listID[i] =>
                /\ dbRows[k][ColumnOf(dbArg.listOfItemToChange[i])] = dbArg.listOfNewValue[i]
                /\ dbArg.listOfItemToChange[i] = "ra" =>
                    /\ dbArg.rows[k].ra # dbArg.listOfNewValue[i] =>
                        dbRows[k].id \notin Range(SearchRaDecl(dbRows, CameraFilter,
                                                dbArg.rows[k].ra, dbRows[k].decl))
                    /\ dbRows[k].id \in Range(SearchRaDecl(dbRows, CameraFilter,
                                                dbArg.listOfNewValue[i], dbRows[k].decl))

\* the last index of a non-empty set of indices
LastOf(S) == CHOOSE i \in S : \A j \in S : j <= i

\* C15, the part that holds: after updateData has returned, each column that the call set
\* for a row holds the value of the last index that names that row and column
\* (an earlier value for the same row and column is overwritten); every other
\* row and column is unchanged; and searchRaDecl with a new ra finds the row
\* when the new ra and the row's decl have at most six decimals.
C15_LastIndexTakesEffect ==
    UpdateReturned =>
        /\ UpdateFrame
        /\ \A k \in 1..Len(dbRows) : \A col \in DataColumns :
            Targets(dbRows[k].id, col) # {} =>
                /\ dbRows[k][col] = dbArg.listOfNewValue[LastOf(Targets(dbRows[k].id, col))]
                /\ (/\ col = "ra"
                    /\ FormatF(dbRows[k].ra) = dbRows[k].ra
                    /\ FormatF(dbRows[k].decl) = dbRows[k].decl)
                   => dbRows[k].id \in Range(SearchRaDecl(dbRows, CameraFilter,
                                                dbRows[k].ra, dbRows[k].decl))

\* C15 witness: updateData has returned after setting the ra of row 1 and the
\* magnitude of row 2; row 1 is found by its new ra and row 2 kept its ra.
C15_Witness ==
    /\ UpdateReturned
    /\ dbArg.listID = <<1, 2>>
    /\ dbArg.listOfItemToChange = <<"ra", "mag">>
    /\ dbArg.listOfNewValue = <<30, 34>>
    /\ dbRows[1].ra = 30 /\ dbRows[2].gmag = 34 /\ dbRows[2].ra = dbArg.rows[2].ra
    /\ SearchRaDecl(dbRows, CameraFilter, 30, dbRows[1].decl) = <<1>>

\* C16: after deleteData the table holds exactly the rows it held before whose
\* id is not in listID, unchanged and in the same order, and the change is
\* committed; ids in listID that no row has are ignored without error.
C16_DeletesExactlyListed ==
    (dbArg # None /\ dbArg.op = "deleteData") =>
        /\ dbPc = "deleted"
        /\ \A k \in 1..Len(dbRows) : dbRows[k].id \notin Range(dbArg.listID)
        /\ \A k \in 1..Len(dbArg.rows) :
            dbArg.rows[k].id \notin Range(dbArg.listID)
                => \E m \in 1..Len(dbRows) : dbRows[m] = dbArg.rows[k]
        /\ Len(dbRows) =
             Cardinality({k \in 1..Len(dbArg.rows) :
                             dbArg.rows[k].id \notin Range(dbArg.listID)})
        /\ dbCommitted = dbRows

\* C16 witness: deleteData was called with an id no row has, then the id of
\* the second row; the first row remains as it was.
C16_Witness ==
    /\ dbPc = "deleted"
    /\ dbArg.op = "deleteData"
    /\ dbArg.listID = <<3, 2>>
    /\ Len(dbArg.rows) = 2
    /\ dbRows = <<dbArg.rows[1]>>

\* ---- LocalDatabase.insertData ----

\* C14: after insertData has been called a second time with the same map,
\* getAllId returns what it returned after the first call and the table holds
\* the rows it held after the first call.
C14_SecondInsertAddsNoRow ==
    dbPc = "insertedAgain" =>
        /\ GetAllId(dbRows, CameraFilter) = dbArg.numId
        /\ dbRows = dbArg.rows

\* ---- getDonutMap: shape of the returned map ----

\* candidate ii of detector d is skipped for both roles: its cutout holds more
\* than two stars with deblending enabled, or the detector has neither image
Skipped(d, ii) ==
    \/ doDeblending /\ NumStars(d, ii) > 2
    \/ wfsImgMap.img[d].intraImg = None /\ wfsImgMap.img[d].extraImg = None

\* C23: in every state the donut map's keys are detectors of the image map, no
\* detector maps to an empty list and every DonutImage has its intra or its
\* extra image set; when getDonutMap has returned, a candidate that was skipped
\* has no entry.
C23_DonutMapWellFormed ==
    /\ DOMAIN donutMap \subseteq Range(wfsImgMap.keys)
    /\ \A d \in DOMAIN donutMap :
        /\ Len(donutMap[d]) > 0
        /\ \A k \in 1..Len(donutMap[d]) :
            donutMap[d][k].intraImg # None \/ donutMap[d][k].extraImg # None
    /\ pc.at = "done" =>
        \A c \in DonutCases :
            Skipped(c[1], c[2]) => DonutsOf(c[1], neighborStarMap[c[1]].keys[c[2]]) = {}

\* C23 witness: getDonutMap has returned with deblending enabled; on one
\* detector with an image a candidate with two neighbors has no entry while
\* another candidate of the run has one.
C23_Witness ==
    /\ pc.at = "done"
    /\ doDeblending
    /\ \E c \in DonutCases :
        /\ NumStars(c[1], c[2]) = 3
        /\ wfsImgMap.img[c[1]].intraImg # None
        /\ DonutsOf(c[1], neighborStarMap[c[1]].keys[c[2]]) = {}
    /\ \E d \in DOMAIN donutMap : Len(donutMap[d]) = 1

\* ---- getTargetStarByFile: order of the catalog session ----

\* the catalog session of a run on a local database
SessionOrder ==
    <<"connect", "createTable", "insertDataByFile", "getTargetStar", "deleteTable",
      "disconnect">>

\* C22: in every state the catalog calls made so far are the first calls of
\* connect, createTable, insertDataByFile, getTargetStar, deleteTable,
\* disconnect, in that order, and a run that has returned has made all six.
C22_SessionInFixedOrder ==
    /\ Len(dbCalls) <= Len(SessionOrder)
    /\ dbCalls = SubSeq(SessionOrder, 1, Len(dbCalls))
    /\ tsPc = "done" => dbCalls = SessionOrder

\* C22 witness: a run on a local database has returned after the six calls,
\* the query having found stars.
C22_Witness ==
    /\ tsPc = "done"
    /\ sourSelc.name = LocalDb
    /\ Len(dbCalls) = 6
    /\ dbCalls[5] = "deleteTable" /\ dbCalls[6] = "disconnect"
    /\ DOMAIN tsMaps.star # {}

\* ---- getPostISRDefocalImgMap with a wavefront-sensor directory ----

\* getPostISRDefocalImgMap has returned from a call that was given a directory
WfsDirReturned ==
    /\ ctlPc = "returned"
    /\ ctlArg.op = "getPostISRDefocalImgMap"
    /\ ctlArg.wfsDir # None

\* the file matched for a sensor name in the directory of the last call
MatchedFile(sensorName) ==
    SearchFileName(ctlArg.wfsFileList, AbbrevDetectorName(sensorName), ctlArg.snap)

\* the suffix of a corner sensor's name: "A", "B", or "" without suffix
SuffixOf(sensorName) == IF Len(sensorName) = 13 THEN sensorName[13] ELSE ""

\* the entry of a sensor follows its suffix: no entry without a matching file;
\* else the matched file's image as intra image only for suffix A, as extra
\* image only for suffix B, and never both roles set
RolesFollowSuffix(sensorName) ==
    IF MatchedFile(sensorName) = None THEN sensorName \notin DOMAIN imgMapOut
    ELSE /\ sensorName \in DOMAIN imgMapOut
         /\ SuffixOf(sensorName) = "A" =>
                /\ imgMapOut[sensorName].intraImg = FitsImage(MatchedFile(sensorName))
                /\ imgMapOut[sensorName].extraImg = None
         /\ SuffixOf(sensorName) = "B" =>
                /\ imgMapOut[sensorName].extraImg = FitsImage(MatchedFile(sensorName))
                /\ imgMapOut[sensorName].intraImg = None
         /\ imgMapOut[sensorName].intraImg = None \/ imgMapOut[sensorName].extraImg = None

\* C21 as stated: after a call with a wavefront-sensor directory the entry of
\* every sensor named in the call follows its suffix.
C21_RolesFollowSuffix ==
    WfsDirReturned => \A k \in 1..Len(ctlArg.sensorNameList) :
                          RolesFollowSuffix(ctlArg.sensorNameList[k])

\* C21, the part that holds: the same after a call with a wavefront-sensor
\* directory and no observation ids.
C21_RolesFollowSuffixWithoutObsIds ==
    (WfsDirReturned /\ ctlArg.obsIdList = None) =>
        \A k \in 1..Len(ctlArg.sensorNameList) :
            RolesFollowSuffix(ctlArg.sensorNameList[k])

\* ---- insertData: the rows of one call ----

\* the rows the last insertData call added to the table
AddedRows == SubSeq(dbRows, Len(dbArg.rows) + 1, Len(dbRows))

\* the bright stars of the map that the table did not hold by (ra, decl)
\* before the call
NewBrightStars ==
    {b \in Range(dbArg.neighborStarMap.keys) :
        Len(SearchRaDecl(dbArg.rows, CameraFilter,
                         dbArg.neighborStarMap.RaDecl[b][1],
                         dbArg.neighborStarMap.RaDecl[b][2])) = 0}

\* no star id is inserted twice by the call
NoStarInsertedTwice ==
    \A j, k \in 1..Len(AddedRows) : AddedRows[j].simobjid = AddedRows[k].simobjid => j = k

\* a row is flagged bright_star exactly when its id is a new bright star
BrightFlagOfNewBrightStars ==
    \A k \in 1..Len(AddedRows) :
        AddedRows[k].bright_star = 1 <=> AddedRows[k].simobjid \in NewBrightStars

\* every inserted star is a new bright star or a neighbor of one, so the
\* neighbors of a bright star the table held already are not inserted for it
OnlyNewBrightStarsAndTheirNeighbors ==
    \A k \in 1..Len(AddedRows) :
        \/ AddedRows[k].simobjid \in NewBrightStars
        \/ \E b \in NewBrightStars :
              InList(AddedRows[k].simobjid, dbArg.neighborStarMap.SimobjID[b])

\* C24 as stated: one insertData call inserts each star id at most once, flags
\* exactly the new bright stars, and inserts nothing for a bright star the
\* table held already.
C24_EachStarInsertedOnce ==
    dbPc = "inserted" => /\ NoStarInsertedTwice
                         /\ BrightFlagOfNewBrightStars
                         /\ OnlyNewBrightStarsAndTheirNeighbors

\* C24, the part that holds: the bright flag and the origin of the rows
C24_FlagsAndOrigin ==
    dbPc = "inserted" => /\ BrightFlagOfNewBrightStars
                         /\ OnlyNewBrightStarsAndTheirNeighbors

\* ---- updateData that fails partway, and the calls after it ----

\* a call on the connection has committed after an updateData failed partway
CommittedAfterFailure ==
    /\ dbArg # None
    /\ "failed" \in DOMAIN dbArg
    /\ dbPc \in {"returned", "deleted", "inserted"}

\* what the later call commits on a table without the updates of the failed
\* call
LaterCallAlone ==
    CASE dbArg.op = "updateData" ->
            UpdateData(dbArg.failed.rows, dbArg.failed.committed, CameraFilter, dbArg.listID,
                       dbArg.listOfItemToChange, dbArg.listOfNewValue).committed
      [] dbArg.op = "deleteData" ->
            DeleteData(dbArg.failed.rows, dbArg.failed.committed, CameraFilter,
                       dbArg.listID).committed
      [] dbArg.op = "insertData" ->
            InsertData(dbArg.failed.rows, dbArg.failed.committed, CameraFilter,
                       dbArg.neighborStarMap).committed

\* C25 as stated: when updateData fails partway, the committed table stays as
\* it was, and a later successful updateData, deleteData or insertData on the
\* connection commits only its own changes, none of the failed call's updates.
C25_FailedUpdateNeverCommitted ==
    /\ UpdateFailedPartway => dbCommitted = dbArg.committed
    /\ CommittedAfterFailure => dbCommitted = LaterCallAlone

\* C25, the part that holds: the failing call itself commits nothing, and its
\* executed updates stay pending on the connection.
C25_FailureAloneCommitsNothing ==
    UpdateFailedPartway =>
        /\ dbCommitted = dbArg.committed
        /\ dbRows = UpdateLoop(dbArg.rows, 1, CameraFilter, dbArg.listID,
                               dbArg.listOfItemToChange, dbArg.listOfNewValue).rows

====
